---- MODULE Spec2Model ----
(***************************************************************************)
(* Verification model of two components of the node:                       *)
(*   - the heartbeat record heartbeatMessageInfo (src/unnamed/part_000),   *)
(*   - the ESDT system smart contract           (src/unnamed/part_002).    *)
(*                                                                         *)
(* Three specifications are defined:                                       *)
(*   Spec      the heartbeat record under a sequence of whole calls        *)
(*             (constructor, HeartbeatReceived, computeActive);            *)
(*   SpecRace  the same record with HeartbeatReceived and computeActive    *)
(*             run by concurrent goroutines, one memory access per step;   *)
(*   SpecESDT  the ESDT contract under a sequence of Execute,              *)
(*             EpochConfirmed and SetNewGasCost calls.                     *)
(* Times and durations are integers (one unit = one tick of the clock).    *)
(***************************************************************************)
EXTENDS Integers, Sequences, FiniteSets, TLC

VARIABLES
    \* ---- heartbeat record (Spec and SpecRace) ----
    hbmi,       \* <<>> (nil) or <<record>>: the *heartbeatMessageInfo
    hbErr,      \* error returned by the last newHeartbeatMessageInfo call
    lastCons,   \* arguments of the last newHeartbeatMessageInfo call
    createdAt,  \* clock reading taken by the constructor (timer.Now())
    maxSeen,    \* greatest current time handed to any call so far
    regressed,  \* TRUE once a call ran at a time earlier than a previous one
    settled,    \* TRUE once a call with current time >= genesisTime returned
    lastHeartbeat, \* time of the last HeartbeatReceived (genesisTime if none)
    lastOp,     \* the last call on the record: name, time, isActive before it
    ncalls,     \* number of calls made on the record
    \* ---- goroutines of SpecRace ----
    pc,         \* position of each goroutine inside its call
    loc,        \* local variables of each goroutine
    updateMutex,\* holder of hbmi.updateMutex ("" when free)
    raceLog,    \* record state and calls since the record was last quiescent
    \* ---- ESDT contract (SpecESDT) ----
    storage,    \* the contract's storage behind eei.GetStorage / SetStorage
    gasCost,    \* e.gasCost
    flagEnabled,\* e.flagEnabled
    lastCall,   \* the last Execute call: its input, return code and effects
    nmut,       \* number of Execute calls that changed storage
    lastEpoch,  \* the epoch of the last EpochConfirmed call (-1 if none)
    initDone,   \* TRUE once an Execute call of the init function has returned
    issuedOk,   \* the identifiers for which issue or issueProtected returned Ok
    \* ---- goroutines of SpecConc ----
    epc,        \* position of each goroutine inside its Execute / SetNewGasCost call
    eloc,       \* local variables of each goroutine
    mutExecution, \* e.mutExecution: the goroutines reading, and whether one writes
    concLog     \* number of issue and of mint calls that returned Ok

hbVars == <<hbmi, hbErr, lastCons, createdAt, maxSeen, regressed, settled,
            lastHeartbeat, lastOp, ncalls>>
raceVars == <<pc, loc, updateMutex, raceLog>>
concVars == <<epc, eloc, mutExecution, concLog>>
esdtVars == <<storage, gasCost, flagEnabled, lastCall, nmut, lastEpoch, initDone, issuedOk, concVars>>
vars == <<hbVars, raceVars, esdtVars>>

----------------------------------------------------------------------------
(* Bounds of the model.                                                    *)

MaxTime == 3
MaxGenesis == 1
MaxThreshold == 2
MaxCalls == 4

Times == 0..MaxTime
GenesisTimes == 0..MaxGenesis
Thresholds == (-1)..MaxThreshold
ShardIDs == {0, 1}
Versions == {"v1"}
DisplayNames == {"node"}
TimerKinds == {"nil", "nilPointer", "timer"}

----------------------------------------------------------------------------
(* heartbeatMessageInfo: pure translation of src/unnamed/part_000.         *)

ErrNone == "nil"
ErrInvalidMaxDurationPeerUnresponsive == "ErrInvalidMaxDurationPeerUnresponsive"
ErrNilTimer == "ErrNilTimer"

maxDuration(first, second) ==
    IF first > second THEN first ELSE second

\* timer == nil || timer.IsInterfaceNil()
timerIsNil(timer) == timer = "nil" \/ timer = "nilPointer"

\* Mutant: the two argument checks in the other order.
newHeartbeatMessageInfo_swapped(maxDurationPeerUnresponsive, isValidator, genesisTime, timer, now) ==
    IF timerIsNil(timer)
    THEN [hbmi |-> <<>>, err |-> ErrNilTimer]
    ELSE IF maxDurationPeerUnresponsive = 0
    THEN [hbmi |-> <<>>, err |-> ErrInvalidMaxDurationPeerUnresponsive]
    ELSE [hbmi |-> <<[maxDurationPeerUnresponsive |-> maxDurationPeerUnresponsive,
                      maxInactiveTime |-> 0, totalUpTime |-> 0, totalDownTime |-> 0,
                      timeStamp |-> genesisTime, isActive |-> FALSE,
                      receivedShardID |-> 0, computedShardID |-> 0,
                      versionNumber |-> "", nodeDisplayName |-> "",
                      isValidator |-> isValidator,
                      lastUptimeDowntime |-> now, genesisTime |-> genesisTime]>>,
          err |-> ErrNone]

\* now is the value timer.Now() returns when the constructor reads the clock.
newHeartbeatMessageInfo(maxDurationPeerUnresponsive, isValidator, genesisTime, timer, now) ==
    IF maxDurationPeerUnresponsive = 0
    THEN [hbmi |-> <<>>, err |-> ErrInvalidMaxDurationPeerUnresponsive]
    ELSE IF timerIsNil(timer)
    THEN [hbmi |-> <<>>, err |-> ErrNilTimer]
    ELSE [hbmi |-> <<[maxDurationPeerUnresponsive |-> maxDurationPeerUnresponsive,
                      maxInactiveTime |-> 0, totalUpTime |-> 0, totalDownTime |-> 0,
                      timeStamp |-> genesisTime, isActive |-> FALSE,
                      receivedShardID |-> 0, computedShardID |-> 0,
                      versionNumber |-> "", nodeDisplayName |-> "",
                      isValidator |-> isValidator,
                      lastUptimeDowntime |-> now, genesisTime |-> genesisTime]>>,
          err |-> ErrNone]

\* Mutant: the threshold comparison is off by one.
computeValidDuration_offByOne(crtTime, h) ==
    LET crtDuration == maxDuration(0, crtTime - h.timeStamp)
    IN  crtDuration <= h.maxDurationPeerUnresponsive + 1

computeValidDuration(crtTime, h) ==
    LET crtDuration == maxDuration(0, crtTime - h.timeStamp)
    IN  crtDuration <= h.maxDurationPeerUnresponsive

updateMaxInactiveTimeDuration(h, currentTime) ==
    LET crtDuration == maxDuration(0, currentTime - h.timeStamp)
        greaterDurationThanMax == h.maxInactiveTime < crtDuration
        currentTimeAfterGenesis == h.genesisTime - currentTime < 0
    IN  IF greaterDurationThanMax /\ currentTimeAfterGenesis
        THEN [h EXCEPT !.maxInactiveTime = crtDuration]
        ELSE h

\* Mutant: lastUptimeDowntime is not clamped to genesisTime.
updateUpAndDownTime_noClamp(h, previousActive, crtTime) ==
    LET lastDuration == maxDuration(0, crtTime - h.lastUptimeDowntime)
        h2 == IF previousActive /\ h.isActive
              THEN [h EXCEPT !.totalUpTime = @ + lastDuration]
              ELSE [h EXCEPT !.totalDownTime = @ + lastDuration]
    IN  [h2 EXCEPT !.lastUptimeDowntime = crtTime]

\* Mutant: the elapsed interval is not clamped to a non-negative duration.
updateUpAndDownTime_noFloor(h, previousActive, crtTime) ==
    LET h1 == IF h.lastUptimeDowntime - h.genesisTime < 0
              THEN [h EXCEPT !.lastUptimeDowntime = h.genesisTime]
              ELSE h
        lastDuration == crtTime - h1.lastUptimeDowntime
        h2 == IF previousActive /\ h1.isActive
              THEN [h1 EXCEPT !.totalUpTime = @ + lastDuration]
              ELSE [h1 EXCEPT !.totalDownTime = @ + lastDuration]
    IN  [h2 EXCEPT !.lastUptimeDowntime = crtTime]

updateUpAndDownTime(h, previousActive, crtTime) ==
    LET h1 == IF h.lastUptimeDowntime - h.genesisTime < 0
              THEN [h EXCEPT !.lastUptimeDowntime = h.genesisTime]
              ELSE h
        lastDuration == maxDuration(0, crtTime - h1.lastUptimeDowntime)
        h2 == IF previousActive /\ h1.isActive
              THEN [h1 EXCEPT !.totalUpTime = @ + lastDuration]
              ELSE [h1 EXCEPT !.totalDownTime = @ + lastDuration]
    IN  [h2 EXCEPT !.lastUptimeDowntime = crtTime]

\* Mutant: the settlement is not skipped before genesisTime.
updateTimes_noGuard(h, crtTime, previousActive) ==
    updateUpAndDownTime(updateMaxInactiveTimeDuration(h, crtTime),
                        previousActive, crtTime)

updateTimes(h, crtTime, previousActive) ==
    IF crtTime - h.genesisTime < 0
    THEN h
    ELSE updateUpAndDownTime(updateMaxInactiveTimeDuration(h, crtTime),
                             previousActive, crtTime)

\* Mutant: the interval is credited by the activity before the call alone.
updateFields_noValidity(h, crtTime) ==
    LET previousActive == h.isActive
        h1 == [h EXCEPT !.isActive = TRUE]
    IN  updateTimes(h1, crtTime, previousActive)

\* Mutant: isActive is set from the previous window instead of unconditionally.
updateFields_conditional(h, crtTime) ==
    LET validDuration == computeValidDuration(crtTime, h)
        previousActive == h.isActive /\ validDuration
        h1 == [h EXCEPT !.isActive = previousActive]
    IN  updateTimes(h1, crtTime, previousActive)

updateFields(h, crtTime) ==
    LET validDuration == computeValidDuration(crtTime, h)
        previousActive == h.isActive /\ validDuration
        h1 == [h EXCEPT !.isActive = TRUE]
    IN  updateTimes(h1, crtTime, previousActive)

\* Mutant: isActive follows the validity of the duration alone.
computeActive_validityOnly(h, crtTime) ==
    LET validDuration == computeValidDuration(crtTime, h)
        h1 == [h EXCEPT !.isActive = validDuration]
    IN  updateTimes(h1, crtTime, h1.isActive)

\* The body of computeActive between Lock() and Unlock().
computeActive(h, crtTime) ==
    LET validDuration == computeValidDuration(crtTime, h)
        h1 == [h EXCEPT !.isActive = h.isActive /\ validDuration]
    IN  updateTimes(h1, crtTime, h1.isActive)

\* crtTime is the value hbmi.getTimeHandler() returns.
HeartbeatReceived(h, crtTime, computedShardID, receivedshardID, version, nodeDisplayName) ==
    [updateFields(h, crtTime) EXCEPT
        !.computedShardID = computedShardID,
        !.receivedShardID = receivedshardID,
        !.timeStamp = crtTime,
        !.versionNumber = version,
        !.nodeDisplayName = nodeDisplayName]

----------------------------------------------------------------------------
(* Spec: the record under a sequence of whole calls.                       *)

NoOp == [op |-> "none", now |-> 0, wasActive |-> FALSE]
NoCons == [called |-> FALSE, threshold |-> 0, timer |-> "nil"]
IdleRace == <<>>

RaceIdle ==
    /\ pc = IdleRace
    /\ loc = IdleRace
    /\ updateMutex = ""
    /\ raceLog = IdleRace

\* The ESDT contract takes no part in the heartbeat specifications.
ESDTIdle ==
    /\ storage = <<>>
    /\ gasCost = <<>>
    /\ flagEnabled = FALSE
    /\ lastCall = <<>>
    /\ nmut = 0
    /\ lastEpoch = -1
    /\ initDone = FALSE
    /\ issuedOk = {}
    /\ epc = <<>>
    /\ eloc = <<>>
    /\ mutExecution = <<>>
    /\ concLog = <<>>

Init ==
    /\ hbmi = <<>>
    /\ hbErr = ErrNone
    /\ lastCons = NoCons
    /\ createdAt = 0
    /\ maxSeen = 0
    /\ regressed = FALSE
    /\ settled = FALSE
    /\ lastHeartbeat = 0
    /\ lastOp = NoOp
    /\ ncalls = 0
    /\ RaceIdle
    /\ ESDTIdle

Rec == hbmi[1]
Constructed == Len(hbmi) = 1

Construct ==
    /\ ~Constructed
    /\ \E threshold \in Thresholds, isValidator \in BOOLEAN,
          genesisTime \in GenesisTimes, timer \in TimerKinds, now \in Times :
          LET r == newHeartbeatMessageInfo(threshold, isValidator, genesisTime, timer, now)
          IN  /\ hbmi' = r.hbmi
              /\ hbErr' = r.err
              /\ lastCons' = [called |-> TRUE, threshold |-> threshold, timer |-> timer]
              /\ createdAt' = IF r.err = ErrNone THEN now ELSE 0
              /\ maxSeen' = IF r.err = ErrNone THEN now ELSE 0
              /\ lastHeartbeat' = IF r.err = ErrNone THEN genesisTime ELSE 0
    /\ UNCHANGED <<regressed, settled, lastOp, ncalls, raceVars, esdtVars>>

\* Bookkeeping shared by the two calls: what the call was and what it saw.
Observe(op, now) ==
    /\ lastOp' = [op |-> op, now |-> now, wasActive |-> Rec.isActive]
    /\ maxSeen' = maxDuration(maxSeen, now)
    /\ regressed' = (regressed \/ now < maxSeen)
    /\ settled' = (settled \/ now >= Rec.genesisTime)
    /\ ncalls' = ncalls + 1

CallHeartbeatReceived ==
    /\ Constructed
    /\ ncalls < MaxCalls
    /\ \E now \in Times, cs \in ShardIDs, rs \in ShardIDs,
          version \in Versions, name \in DisplayNames :
          /\ hbmi' = <<HeartbeatReceived(Rec, now, cs, rs, version, name)>>
          /\ Observe("HeartbeatReceived", now)
          /\ lastHeartbeat' = now
    /\ UNCHANGED <<hbErr, lastCons, createdAt, raceVars, esdtVars>>

CallComputeActive ==
    /\ Constructed
    /\ ncalls < MaxCalls
    /\ \E now \in Times :
          /\ hbmi' = <<computeActive(Rec, now)>>
          /\ Observe("computeActive", now)
    /\ UNCHANGED <<hbErr, lastCons, createdAt, lastHeartbeat, raceVars, esdtVars>>

Next ==
    \/ Construct
    \/ CallHeartbeatReceived
    \/ CallComputeActive

Spec == Init /\ [][Next]_vars

----------------------------------------------------------------------------
(* SpecRace: HeartbeatReceived and computeActive run by concurrent         *)
(* goroutines.  HeartbeatReceived takes no lock (part_000:112-125);        *)
(* computeActive holds updateMutex (part_000:71,75).  Every step is one    *)
(* read or one write of a field of the record, so the unsynchronised       *)
(* accesses interleave in every order the scheduler allows.  Labels carry  *)
(* the source line of the access.                                          *)

MaxRaceTime == 3
MaxRaceCalls == 2
RaceGenesis == 1
RaceThresholds == {1}
RaceTimes == 0..MaxRaceTime
HBProcs == {"hb1", "hb2"}
CAProcs == {"ca"}
RaceProcs == HBProcs \cup CAProcs

LocIdle == [crtTime |-> 0, validDuration |-> FALSE, previousActive |-> FALSE,
            crtDuration |-> 0, lastDuration |-> 0, tmp |-> 0, tmpActive |-> FALSE]
NoRaceLog == [pre |-> <<>>, calls |-> <<>>]

RaceInit ==
    /\ \E threshold \in RaceThresholds, now \in 0..RaceGenesis :
          /\ hbmi = newHeartbeatMessageInfo(threshold, TRUE, RaceGenesis, "timer", now).hbmi
          /\ createdAt = now
          /\ maxSeen = now
          /\ lastCons = [called |-> TRUE, threshold |-> threshold, timer |-> "timer"]
    /\ hbErr = ErrNone
    /\ regressed = FALSE
    /\ settled = FALSE
    /\ lastHeartbeat = RaceGenesis
    /\ lastOp = NoOp
    /\ ncalls = 0
    /\ pc = [p \in RaceProcs |-> "idle"]
    /\ loc = [p \in RaceProcs |-> LocIdle]
    /\ updateMutex = ""
    /\ raceLog = NoRaceLog
    /\ ESDTIdle

AllIdle == \A p \in RaceProcs : pc[p] = "idle"
Goto(p, label) == pc' = [pc EXCEPT ![p] = label]
\* Where updateTimes returns to: HeartbeatReceived line 120, computeActive line 75.
AfterUpdateTimes(p) == IF p \in HBProcs THEN "hb120" ELSE "ca75"
RaceFrame == UNCHANGED <<hbErr, lastCons, createdAt, maxSeen, regressed, settled,
                         lastHeartbeat, lastOp, esdtVars>>
\* A step that only reads the record into a local.
ReadStep(p, label, newLoc) ==
    /\ loc' = [loc EXCEPT ![p] = newLoc]
    /\ Goto(p, label)
    /\ UNCHANGED <<hbmi, ncalls, updateMutex, raceLog>>
    /\ RaceFrame
\* A step that writes the record.
WriteStep(p, label, newRec) ==
    /\ hbmi' = <<newRec>>
    /\ Goto(p, label)
    /\ UNCHANGED <<loc, ncalls, updateMutex, raceLog>>
    /\ RaceFrame

\* A call starts: its current time is fixed (getTimeHandler() at line 118 for
\* HeartbeatReceived, the crtTime argument for computeActive).
StartCall(p) ==
    /\ pc[p] = "idle"
    /\ ncalls < MaxRaceCalls
    /\ \E now \in RaceTimes :
          /\ loc' = [loc EXCEPT ![p] = [LocIdle EXCEPT !.crtTime = now]]
          /\ raceLog' = IF AllIdle
                        THEN [pre |-> hbmi, calls |-> <<[who |-> p, now |-> now]>>]
                        ELSE [raceLog EXCEPT !.calls = Append(@, [who |-> p, now |-> now])]
    /\ Goto(p, IF p \in HBProcs THEN "hb63" ELSE "ca71")
    /\ ncalls' = ncalls + 1
    /\ UNCHANGED <<hbmi, updateMutex>>
    /\ RaceFrame

\* updateFields, line 63: validDuration := computeValidDuration(crtTime, hbmi)
HB63(p) ==
    /\ pc[p] = "hb63"
    /\ ReadStep(p, "hb64",
         [loc[p] EXCEPT !.validDuration = computeValidDuration(loc[p].crtTime, Rec)])

\* line 64: previousActive := hbmi.isActive && validDuration
HB64(p) ==
    /\ pc[p] = "hb64"
    /\ ReadStep(p, "hb65",
         [loc[p] EXCEPT !.previousActive = (Rec.isActive /\ loc[p].validDuration)])

\* line 65: hbmi.isActive = true
HB65(p) ==
    /\ pc[p] = "hb65"
    /\ WriteStep(p, "ut79", [Rec EXCEPT !.isActive = TRUE])

\* computeActive, line 71: hbmi.updateMutex.Lock()
CA71(p) ==
    /\ pc[p] = "ca71"
    /\ updateMutex = ""
    /\ updateMutex' = p
    /\ Goto(p, "ca72")
    /\ UNCHANGED <<hbmi, loc, ncalls, raceLog>>
    /\ RaceFrame

\* line 72: validDuration := computeValidDuration(crtTime, hbmi)
CA72(p) ==
    /\ pc[p] = "ca72"
    /\ ReadStep(p, "ca73",
         [loc[p] EXCEPT !.validDuration = computeValidDuration(loc[p].crtTime, Rec)])

\* line 73, the read: hbmi.isActive && validDuration
CA73(p) ==
    /\ pc[p] = "ca73"
    /\ ReadStep(p, "ca73w",
         [loc[p] EXCEPT !.tmpActive = (Rec.isActive /\ loc[p].validDuration)])

\* line 73, the write: hbmi.isActive = ...
CA73w(p) ==
    /\ pc[p] = "ca73w"
    /\ WriteStep(p, "ca74", [Rec EXCEPT !.isActive = loc[p].tmpActive])

\* line 74: the argument hbmi.isActive of updateTimes is read
CA74(p) ==
    /\ pc[p] = "ca74"
    /\ ReadStep(p, "ut79", [loc[p] EXCEPT !.previousActive = Rec.isActive])

\* updateTimes, line 79: if crtTime.Sub(hbmi.genesisTime) < 0 { return }
UT79(p) ==
    /\ pc[p] = "ut79"
    /\ ReadStep(p, IF loc[p].crtTime - Rec.genesisTime < 0
                   THEN AfterUpdateTimes(p) ELSE "mi128",
                loc[p])

\* updateMaxInactiveTimeDuration, lines 128-129: crtDuration from hbmi.timeStamp
MI128(p) ==
    /\ pc[p] = "mi128"
    /\ ReadStep(p, "mi131",
         [loc[p] EXCEPT !.crtDuration = maxDuration(0, loc[p].crtTime - Rec.timeStamp)])

\* lines 131-134: the comparison with hbmi.maxInactiveTime
MI131(p) ==
    /\ pc[p] = "mi131"
    /\ LET greaterDurationThanMax == Rec.maxInactiveTime < loc[p].crtDuration
           currentTimeAfterGenesis == Rec.genesisTime - loc[p].crtTime < 0
       IN  ReadStep(p, IF greaterDurationThanMax /\ currentTimeAfterGenesis
                       THEN "mi135" ELSE "ud95",
                    loc[p])

\* line 135: hbmi.maxInactiveTime.Duration = crtDuration
MI135(p) ==
    /\ pc[p] = "mi135"
    /\ WriteStep(p, "ud95", [Rec EXCEPT !.maxInactiveTime = loc[p].crtDuration])

\* updateUpAndDownTime, line 95: if hbmi.lastUptimeDowntime.Sub(genesisTime) < 0
UD95(p) ==
    /\ pc[p] = "ud95"
    /\ ReadStep(p, IF Rec.lastUptimeDowntime - Rec.genesisTime < 0
                   THEN "ud96" ELSE "ud99",
                loc[p])

\* line 96: hbmi.lastUptimeDowntime = hbmi.genesisTime
UD96(p) ==
    /\ pc[p] = "ud96"
    /\ WriteStep(p, "ud99", [Rec EXCEPT !.lastUptimeDowntime = Rec.genesisTime])

\* lines 99-100: lastDuration from hbmi.lastUptimeDowntime
UD99(p) ==
    /\ pc[p] = "ud99"
    /\ ReadStep(p, "ud102",
         [loc[p] EXCEPT !.lastDuration =
              maxDuration(0, loc[p].crtTime - Rec.lastUptimeDowntime)])

\* line 102: if previousActive && hbmi.isActive
UD102(p) ==
    /\ pc[p] = "ud102"
    /\ ReadStep(p, IF loc[p].previousActive /\ Rec.isActive THEN "ud103" ELSE "ud105",
                loc[p])

\* line 103, the read of hbmi.totalUpTime.Duration
UD103(p) ==
    /\ pc[p] = "ud103"
    /\ ReadStep(p, "ud103w", [loc[p] EXCEPT !.tmp = Rec.totalUpTime])

\* line 103, the write: totalUpTime.Duration += lastDuration
UD103w(p) ==
    /\ pc[p] = "ud103w"
    /\ WriteStep(p, "ud108", [Rec EXCEPT !.totalUpTime = loc[p].tmp + loc[p].lastDuration])

\* line 105, the read of hbmi.totalDownTime.Duration
UD105(p) ==
    /\ pc[p] = "ud105"
    /\ ReadStep(p, "ud105w", [loc[p] EXCEPT !.tmp = Rec.totalDownTime])

\* line 105, the write: totalDownTime.Duration += lastDuration
UD105w(p) ==
    /\ pc[p] = "ud105w"
    /\ WriteStep(p, "ud108", [Rec EXCEPT !.totalDownTime = loc[p].tmp + loc[p].lastDuration])

\* line 108: hbmi.lastUptimeDowntime = crtTime
UD108(p) ==
    /\ pc[p] = "ud108"
    /\ WriteStep(p, AfterUpdateTimes(p), [Rec EXCEPT !.lastUptimeDowntime = loc[p].crtTime])

\* HeartbeatReceived, line 120: hbmi.computedShardID = computedShardID
HB120(p) ==
    /\ pc[p] = "hb120"
    /\ \E cs \in ShardIDs :
          WriteStep(p, "hb121", [Rec EXCEPT !.computedShardID = cs])

\* line 121: hbmi.receivedShardID = receivedshardID
HB121(p) ==
    /\ pc[p] = "hb121"
    /\ \E rs \in ShardIDs :
          WriteStep(p, "hb122", [Rec EXCEPT !.receivedShardID = rs])

\* line 122: hbmi.timeStamp = crtTime
HB122(p) ==
    /\ pc[p] = "hb122"
    /\ WriteStep(p, "hb123", [Rec EXCEPT !.timeStamp = loc[p].crtTime])

\* line 123: hbmi.versionNumber = version
HB123(p) ==
    /\ pc[p] = "hb123"
    /\ \E version \in Versions :
          WriteStep(p, "hb124", [Rec EXCEPT !.versionNumber = version])

\* line 124: hbmi.nodeDisplayName = nodeDisplayName; HeartbeatReceived returns
HB124(p) ==
    /\ pc[p] = "hb124"
    /\ \E name \in DisplayNames :
          hbmi' = <<[Rec EXCEPT !.nodeDisplayName = name]>>
    /\ Goto(p, "idle")
    /\ loc' = [loc EXCEPT ![p] = LocIdle]
    /\ UNCHANGED <<ncalls, updateMutex, raceLog>>
    /\ RaceFrame

\* computeActive, line 75: hbmi.updateMutex.Unlock(); computeActive returns
CA75(p) ==
    /\ pc[p] = "ca75"
    /\ updateMutex' = ""
    /\ Goto(p, "idle")
    /\ loc' = [loc EXCEPT ![p] = LocIdle]
    /\ UNCHANGED <<hbmi, ncalls, raceLog>>
    /\ RaceFrame

RaceNext ==
    \E p \in RaceProcs :
        \/ StartCall(p)
        \/ HB63(p) \/ HB64(p) \/ HB65(p)
        \/ CA71(p) \/ CA72(p) \/ CA73(p) \/ CA73w(p) \/ CA74(p)
        \/ UT79(p)
        \/ MI128(p) \/ MI131(p) \/ MI135(p)
        \/ UD95(p) \/ UD96(p) \/ UD99(p) \/ UD102(p)
        \/ UD103(p) \/ UD103w(p) \/ UD105(p) \/ UD105w(p) \/ UD108(p)
        \/ HB120(p) \/ HB121(p) \/ HB122(p) \/ HB123(p) \/ HB124(p)
        \/ CA75(p)

SpecRace == RaceInit /\ [][RaceNext]_vars

----------------------------------------------------------------------------
(* The ESDT system smart contract: translation of src/unnamed/part_002.    *)
(* Byte strings ([]byte, and the strings compared with them) are sequences *)
(* of byte values; big.Int values are integers.                            *)

minLengthForTokenName == 10
maxLengthForTokenName == 20
\* "esdtConfig"
configKeyPrefix == <<101, 115, 100, 116, 67, 111, 110, 102, 105, 103>>
\* "allIssuedTokens"
allIssuedTokens == <<97, 108, 108, 73, 115, 115, 117, 101, 100, 84, 111, 107, 101, 110, 115>>
\* "canBurn"
burnable == <<99, 97, 110, 66, 117, 114, 110>>
\* "canMint"
mintable == <<99, 97, 110, 77, 105, 110, 116>>
\* "canPause"
canPause == <<99, 97, 110, 80, 97, 117, 115, 101>>
\* "canFreeze"
canFreeze == <<99, 97, 110, 70, 114, 101, 101, 122, 101>>
\* "canWipe"
canWipe == <<99, 97, 110, 87, 105, 112, 101>>
\* "canChangeOwner"
canChangeOwner == <<99, 97, 110, 67, 104, 97, 110, 103, 101, 79, 119, 110, 101, 114>>
\* "canUpgrade"
upgradable == <<99, 97, 110, 85, 112, 103, 114, 97, 100, 101>>
\* "true", "false", "@"
BytesTrue == <<116, 114, 117, 101>>
BytesFalse == <<102, 97, 108, 115, 101>>
BytesAt == <<64>>

\* vmcommon.ReturnCode
Ok == "Ok"
UserError == "UserError"
FunctionNotFound == "FunctionNotFound"
FunctionWrongSignature == "FunctionWrongSignature"
OutOfGas == "OutOfGas"
OutOfFunds == "OutOfFunds"

\* core.SCDeployInitFunctionName and the core.BuiltInFunctionESDT* names
SCDeployInitFunctionName == "_init"
BuiltInFunctionESDTTransfer == "ESDTTransfer"
BuiltInFunctionESDTBurn == "ESDTBurn"
BuiltInFunctionESDTFreeze == "ESDTFreeze"
BuiltInFunctionESDTUnFreeze == "ESDTUnFreeze"
BuiltInFunctionESDTWipe == "ESDTWipe"
BuiltInFunctionESDTPause == "ESDTPause"
BuiltInFunctionESDTUnPause == "ESDTUnPause"

\* The fields of the esdt struct fixed by NewESDTSmartContract.
ContractOwner == <<0, 1>>          \* e.ownerAddress
ESDTSCAddress == <<0, 255>>        \* e.eSDTSCAddress
InitialBaseIssuingCost == 2        \* e.baseIssuingCost
EnabledEpoch == 1                  \* e.enabledEpoch

\* big.NewInt(0).SetBytes(b): the big-endian unsigned value of b.
RECURSIVE BytesToInt(_)
BytesToInt(bytes) ==
    IF bytes = <<>> THEN 0
    ELSE BytesToInt(SubSeq(bytes, 1, Len(bytes) - 1)) * 256 + bytes[Len(bytes)]

\* uint32(big.NewInt(0).SetBytes(b).Uint64()): the value of the low four bytes.
Uint32(bytes) ==
    BytesToInt(SubSeq(bytes, IF Len(bytes) > 4 THEN Len(bytes) - 3 ELSE 1, Len(bytes)))

\* big.Int.String(): the decimal digits, as bytes.
RECURSIVE DecimalBytes(_)
DecimalBytes(n) ==
    IF n < 0 THEN <<45>> \o DecimalBytes(0 - n)
    ELSE IF n < 10 THEN <<48 + n>>
    ELSE DecimalBytes(n \div 10) \o <<48 + (n % 10)>>

Rest(args, from) == SubSeq(args, from, Len(args))

(* The injected vm.SystemEI.  A context c holds what the contract reaches   *)
(* through e.eei during one Execute call: the storage, the gas left, the    *)
(* last return message, the Finish outputs, the transfers and broadcasts    *)
(* made, whether the environment lets Transfer succeed, and the balance     *)
(* GetBalance reports.                                                      *)

NewContext(st, gas, transferOk, balance) ==
    [storage |-> st, gas |-> gas, msg |-> "", out |-> <<>>, transfers |-> <<>>,
     broadcasts |-> <<>>, transferOk |-> transferOk, balance |-> balance]

AddReturnMessage(c, msg) == [c EXCEPT !.msg = msg]

\* eei.UseGas(amount): an error when the gas left does not cover amount.
UseGas(c, amount) ==
    IF c.gas < amount
    THEN [err |-> "ErrNotEnoughGas", c |-> c]
    ELSE [err |-> ErrNone, c |-> [c EXCEPT !.gas = @ - amount]]

\* What a storage key holds.  A value of kind "bytes" is the byte string in
\* its data field; a value of kind "ESDTData" or "ESDTConfig" stands for the
\* bytes e.marshalizer.Marshal gives for that record; a value of kind
\* "appended" for such bytes (head) followed by the byte string tail.  The
\* marshalizer is injected: of its bytes the contract uses only that they are
\* there, their length, and that Unmarshal gives the record back; the length
\* counted for them is that of the byte strings the record carries, plus one.
EmptyBytes == [kind |-> "bytes", data |-> <<>>]
MarshaledLen(v) ==
    1 + Len(v.OwnerAddress) + (IF v.kind = "ESDTData" THEN Len(v.TokenName) ELSE 0)
BytesLen(v) ==
    IF v.kind = "bytes" THEN Len(v.data)
    ELSE IF v.kind = "appended" THEN MarshaledLen(v.head) + Len(v.tail)
    ELSE MarshaledLen(v)
\* append(v, bytes...)
AppendBytes(v, bytes) ==
    IF v.kind = "bytes" THEN [v EXCEPT !.data = @ \o bytes]
    ELSE IF v.kind = "appended" THEN [v EXCEPT !.tail = @ \o bytes]
    ELSE [kind |-> "appended", head |-> v, tail |-> bytes]
\* The value as eei.Finish receives it: the byte string itself where it is
\* one.
RawBytes(v) == IF v.kind = "bytes" THEN v.data ELSE v

\* eei.GetStorage(key): the stored bytes, empty when the key was never set.
\* HasStorage is the test len(data) > 0 the contract makes on them.
GetStorage(c, key) == IF key \in DOMAIN c.storage THEN c.storage[key] ELSE EmptyBytes
HasStorage(c, key) == BytesLen(GetStorage(c, key)) > 0

\* eei.SetStorage(key, value)
SetStorage(c, key, value) ==
    [c EXCEPT !.storage =
        [k \in (DOMAIN c.storage) \cup {key} |-> IF k = key THEN value ELSE c.storage[k]]]

\* eei.Transfer(destination, sender, value, input, gasLimit)
Transfer(c, destination, sender, value, input) ==
    IF c.transferOk
    THEN [err |-> ErrNone,
          c |-> [c EXCEPT !.transfers = Append(@, [destination |-> destination,
                     sender |-> sender, value |-> value, input |-> input])]]
    ELSE [err |-> "ErrTransfer", c |-> c]

Finish(c, value) == [c EXCEPT !.out = Append(@, value)]

SendGlobalSettingToAll(c, sender, input) ==
    [c EXCEPT !.broadcasts = Append(@, [sender |-> sender, input |-> input])]

Ret(rc, c) == [rc |-> rc, c |-> c]
Fail(rc, c, msg) == [rc |-> rc, c |-> AddReturnMessage(c, msg)]

(* Stored values.  The marshalizer is taken to succeed on every record the *)
(* contract builds; Unmarshal fails on bytes that hold another kind of     *)
(* value.                                                                  *)

\* e.marshalizer.Unmarshal succeeds on the bytes Marshal gave for a record of
\* the type asked for, and fails on every other stored value (bytes of the
\* other record type, plain byte strings, marshaled bytes with a tail).
IsESDTData(v) == v.kind = "ESDTData"
IsESDTConfig(v) == v.kind = "ESDTConfig"

saveToken(c, token) == SetStorage(c, token.TokenName, token)

getExistingToken(c, tokenName) ==
    IF ~HasStorage(c, tokenName)
    THEN [err |-> "ErrNoTokenWithGivenName", token |-> <<>>]
    ELSE IF IsESDTData(GetStorage(c, tokenName))
    THEN [err |-> ErrNone, token |-> GetStorage(c, tokenName)]
    ELSE [err |-> "ErrUnmarshal", token |-> <<>>]

DefaultESDTConfig ==
    [kind |-> "ESDTConfig",
     OwnerAddress |-> ContractOwner,
     BaseIssuingCost |-> InitialBaseIssuingCost,
     MinTokenNameLength |-> minLengthForTokenName,
     MaxTokenNameLength |-> maxLengthForTokenName]

getESDTConfig(c) ==
    IF ~HasStorage(c, configKeyPrefix)
    THEN [err |-> ErrNone, config |-> DefaultESDTConfig]
    ELSE IF IsESDTConfig(GetStorage(c, configKeyPrefix))
    THEN [err |-> ErrNone, config |-> GetStorage(c, configKeyPrefix)]
    ELSE [err |-> "ErrUnmarshal", config |-> DefaultESDTConfig]

saveESDTConfig(c, esdtConfig) == SetStorage(c, configKeyPrefix, esdtConfig)

addToIssuedTokens(c, newToken) ==
    IF ~HasStorage(c, allIssuedTokens)
    THEN SetStorage(c, allIssuedTokens, [kind |-> "bytes", data |-> newToken])
    ELSE SetStorage(c, allIssuedTokens,
            AppendBytes(GetStorage(c, allIssuedTokens), BytesAt \o newToken))

\* Mutant: the underscore counts as readable.
isTokenNameHumanReadable_underscore(tokenName) ==
    \A i \in 1..Len(tokenName) :
        LET ch == tokenName[i]
            isSmallCharacter == ch >= 97 /\ ch <= 122
            isBigCharacter == ch >= 65 /\ ch <= 90
            isNumber == ch >= 48 /\ ch <= 57
        IN  isSmallCharacter \/ isBigCharacter \/ isNumber \/ ch = 95

isTokenNameHumanReadable(tokenName) ==
    \A i \in 1..Len(tokenName) :
        LET ch == tokenName[i]
            isSmallCharacter == ch >= 97 /\ ch <= 122
            isBigCharacter == ch >= 65 /\ ch <= 90
            isNumber == ch >= 48 /\ ch <= 57
        IN  isSmallCharacter \/ isBigCharacter \/ isNumber

\* Mutant: whatever is not "true" counts as false.
checkAndGetSetting_lenient(arg) ==
    IF arg = BytesTrue THEN [err |-> ErrNone, val |-> TRUE]
    ELSE [err |-> ErrNone, val |-> FALSE]

checkAndGetSetting(arg) ==
    IF arg = BytesTrue THEN [err |-> ErrNone, val |-> TRUE]
    ELSE IF arg = BytesFalse THEN [err |-> ErrNone, val |-> FALSE]
    ELSE [err |-> "ErrInvalidArgument", val |-> FALSE]

getStringFromBool(val) == IF val THEN "true" ELSE "false"

\* One pair of upgradeProperties' loop (part_002:302-324).
SetProperty(token, optionalArg, val) ==
    IF optionalArg = burnable THEN [err |-> ErrNone, token |-> [token EXCEPT !.Burnable = val]]
    ELSE IF optionalArg = mintable THEN [err |-> ErrNone, token |-> [token EXCEPT !.Mintable = val]]
    ELSE IF optionalArg = canPause THEN [err |-> ErrNone, token |-> [token EXCEPT !.CanPause = val]]
    ELSE IF optionalArg = canFreeze THEN [err |-> ErrNone, token |-> [token EXCEPT !.CanFreeze = val]]
    ELSE IF optionalArg = canWipe THEN [err |-> ErrNone, token |-> [token EXCEPT !.CanWipe = val]]
    ELSE IF optionalArg = upgradable THEN [err |-> ErrNone, token |-> [token EXCEPT !.Upgradable = val]]
    ELSE IF optionalArg = canChangeOwner THEN [err |-> ErrNone, token |-> [token EXCEPT !.CanChangeOwner = val]]
    ELSE [err |-> "ErrInvalidArgument", token |-> token]

RECURSIVE UpgradePairs(_, _)
UpgradePairs(token, args) ==
    IF args = <<>> THEN [err |-> ErrNone, token |-> token]
    ELSE LET setting == checkAndGetSetting(args[2])
             set == SetProperty(token, args[1], setting.val)
         IN  IF setting.err # ErrNone THEN [err |-> setting.err, token |-> token]
             ELSE IF set.err # ErrNone THEN [err |-> set.err, token |-> token]
             ELSE UpgradePairs(set.token, Rest(args, 3))

upgradeProperties(token, args) ==
    IF Len(args) = 0 THEN [err |-> ErrNone, token |-> token]
    ELSE IF Len(args) % 2 # 0 THEN [err |-> "ErrInvalidNumOfArguments", token |-> token]
    ELSE UpgradePairs(token, args)

(* The operations.  e is the esdt struct's mutable part: e.gasCost and     *)
(* e.flagEnabled; c the eei context; args the vmcommon.ContractCallInput.  *)

init(e, c, args) ==
    Ret(Ok, saveESDTConfig(c, DefaultESDTConfig))

\* Mutant: an identifier already in storage is registered again.
issueToken_noDuplicateCheck(c, owner, arguments) ==
    LET tokenName == arguments[1]
        initialSupply == BytesToInt(arguments[2])
        newESDTToken == [kind |-> "ESDTData",
                         OwnerAddress |-> owner,
                         TokenName |-> tokenName,
                         MintedValue |-> initialSupply,
                         BurntValue |-> 0,
                         Burnable |-> FALSE, Mintable |-> FALSE, CanPause |-> FALSE,
                         CanFreeze |-> FALSE, CanWipe |-> FALSE, Upgradable |-> TRUE,
                         CanChangeOwner |-> FALSE, IsPaused |-> FALSE]
        upgraded == upgradeProperties(newESDTToken, Rest(arguments, 3))
        saved == saveToken(c, upgraded.token)
        esdtTransferData == [function |-> BuiltInFunctionESDTTransfer,
                             token |-> tokenName, value |-> initialSupply]
        sent == Transfer(saved, owner, ESDTSCAddress, 0, esdtTransferData)
    IN  IF initialSupply <= 0 THEN [err |-> "ErrNegativeOrZeroInitialSupply", c |-> c]
        ELSE IF ~isTokenNameHumanReadable(tokenName)
        THEN [err |-> "ErrTokenNameNotHumanReadable", c |-> c]
        ELSE IF upgraded.err # ErrNone THEN [err |-> upgraded.err, c |-> c]
        ELSE IF sent.err # ErrNone THEN [err |-> sent.err, c |-> saved]
        ELSE [err |-> ErrNone, c |-> addToIssuedTokens(sent.c, tokenName)]

issueToken(c, owner, arguments) ==
    LET tokenName == arguments[1]
        initialSupply == BytesToInt(arguments[2])
        newESDTToken == [kind |-> "ESDTData",
                         OwnerAddress |-> owner,
                         TokenName |-> tokenName,
                         MintedValue |-> initialSupply,
                         BurntValue |-> 0,
                         Burnable |-> FALSE, Mintable |-> FALSE, CanPause |-> FALSE,
                         CanFreeze |-> FALSE, CanWipe |-> FALSE, Upgradable |-> TRUE,
                         CanChangeOwner |-> FALSE, IsPaused |-> FALSE]
        upgraded == upgradeProperties(newESDTToken, Rest(arguments, 3))
        saved == saveToken(c, upgraded.token)
        esdtTransferData == [function |-> BuiltInFunctionESDTTransfer,
                             token |-> tokenName, value |-> initialSupply]
        sent == Transfer(saved, owner, ESDTSCAddress, 0, esdtTransferData)
    IN  IF initialSupply <= 0 THEN [err |-> "ErrNegativeOrZeroInitialSupply", c |-> c]
        ELSE IF HasStorage(c, tokenName) THEN [err |-> "ErrTokenAlreadyRegistered", c |-> c]
        ELSE IF ~isTokenNameHumanReadable(tokenName)
        THEN [err |-> "ErrTokenNameNotHumanReadable", c |-> c]
        ELSE IF upgraded.err # ErrNone THEN [err |-> upgraded.err, c |-> c]
        ELSE IF sent.err # ErrNone THEN [err |-> sent.err, c |-> saved]
        ELSE [err |-> ErrNone, c |-> addToIssuedTokens(sent.c, tokenName)]

issueProtected(e, c, args) ==
    IF args.CallerAddr # ContractOwner
    THEN Fail(UserError, c, "issueProtected can be called by whitelisted address only")
    ELSE IF Len(args.Arguments) < 3
    THEN Fail(FunctionWrongSignature, c, "not enough arguments")
    ELSE IF Len(args.Arguments[1]) # Len(args.CallerAddr)
    THEN Fail(FunctionWrongSignature, c, "invalid owner address length")
    ELSE LET used == UseGas(c, e.gasCost.ESDTIssue)
             esdtConfig == getESDTConfig(used.c)
             issued == issueToken(used.c, args.Arguments[1], Rest(args.Arguments, 2))
         IN  IF used.err # ErrNone THEN Fail(OutOfGas, c, used.err)
             ELSE IF esdtConfig.err # ErrNone THEN Fail(UserError, used.c, esdtConfig.err)
             ELSE IF args.CallValue # esdtConfig.config.BaseIssuingCost
             THEN Fail(OutOfFunds, used.c, "callValue not equals with baseIssuingCost")
             ELSE IF issued.err # ErrNone THEN Fail(UserError, issued.c, issued.err)
             ELSE Ret(Ok, issued.c)

issue(e, c, args) ==
    IF Len(args.Arguments) < 2
    THEN Fail(FunctionWrongSignature, c, "not enough arguments")
    ELSE LET used == UseGas(c, e.gasCost.ESDTIssue)
             esdtConfig == getESDTConfig(used.c)
             issued == issueToken(used.c, args.CallerAddr, args.Arguments)
         IN  IF used.err # ErrNone THEN Fail(OutOfGas, c, "not enough gas")
             ELSE IF esdtConfig.err # ErrNone THEN Fail(UserError, used.c, esdtConfig.err)
             ELSE IF \/ Len(args.Arguments[1]) < esdtConfig.config.MinTokenNameLength
                     \/ Len(args.Arguments[1]) > esdtConfig.config.MaxTokenNameLength
             THEN Fail(FunctionWrongSignature, used.c, "token name length not in parameters")
             ELSE IF args.CallValue # esdtConfig.config.BaseIssuingCost
             THEN Fail(OutOfFunds, used.c, "callValue not equals with baseIssuingCost")
             ELSE IF issued.err # ErrNone THEN Fail(UserError, issued.c, issued.err)
             ELSE Ret(Ok, issued.c)

\* Mutant: the gas is deducted before the record is saved.
burn_gasFirst(e, c, args) ==
    IF Len(args.Arguments) # 2
    THEN Fail(FunctionWrongSignature, c, "number of arguments must be equal with 2")
    ELSE IF args.CallValue # 0
    THEN Fail(OutOfFunds, c, "callValue must be 0")
    ELSE LET burntValue == BytesToInt(args.Arguments[2])
             existing == getExistingToken(c, args.Arguments[1])
             token == [existing.token EXCEPT !.BurntValue = @ + burntValue]
             used == UseGas(c, args.GasProvided)
         IN  IF burntValue <= 0 THEN Fail(UserError, c, "negative or 0 value to burn")
             ELSE IF existing.err # ErrNone THEN Fail(UserError, c, existing.err)
             ELSE IF ~existing.token.Burnable THEN Fail(UserError, c, "token is not burnable")
             ELSE IF used.err # ErrNone THEN Fail(OutOfGas, c, used.err)
             ELSE Ret(Ok, saveToken(used.c, token))

\* Mutant: a burn that would take BurntValue above MintedValue is refused.
burn_supplyChecked(e, c, args) ==
    IF Len(args.Arguments) # 2
    THEN Fail(FunctionWrongSignature, c, "number of arguments must be equal with 2")
    ELSE IF args.CallValue # 0
    THEN Fail(OutOfFunds, c, "callValue must be 0")
    ELSE LET burntValue == BytesToInt(args.Arguments[2])
             existing == getExistingToken(c, args.Arguments[1])
             token == [existing.token EXCEPT !.BurntValue = @ + burntValue]
             saved == saveToken(c, token)
             used == UseGas(saved, args.GasProvided)
         IN  IF burntValue <= 0 THEN Fail(UserError, c, "negative or 0 value to burn")
             ELSE IF existing.err # ErrNone THEN Fail(UserError, c, existing.err)
             ELSE IF ~existing.token.Burnable THEN Fail(UserError, c, "token is not burnable")
             ELSE IF token.BurntValue > token.MintedValue
             THEN Fail(UserError, c, "not enough supply to burn")
             ELSE IF used.err # ErrNone THEN Fail(OutOfGas, saved, used.err)
             ELSE Ret(Ok, used.c)

burn(e, c, args) ==
    IF Len(args.Arguments) # 2
    THEN Fail(FunctionWrongSignature, c, "number of arguments must be equal with 2")
    ELSE IF args.CallValue # 0
    THEN Fail(OutOfFunds, c, "callValue must be 0")
    ELSE LET burntValue == BytesToInt(args.Arguments[2])
             existing == getExistingToken(c, args.Arguments[1])
             token == [existing.token EXCEPT !.BurntValue = @ + burntValue]
             saved == saveToken(c, token)
             used == UseGas(saved, args.GasProvided)
         IN  IF burntValue <= 0 THEN Fail(UserError, c, "negative or 0 value to burn")
             ELSE IF existing.err # ErrNone THEN Fail(UserError, c, existing.err)
             ELSE IF ~existing.token.Burnable THEN Fail(UserError, c, "token is not burnable")
             ELSE IF used.err # ErrNone THEN Fail(OutOfGas, saved, used.err)
             ELSE Ret(Ok, used.c)

\* Mutant: the caller is not compared with the token's owner.
basicOwnershipChecks_noOwnerCheck(e, c, args) ==
    IF args.CallValue # 0
    THEN [rc |-> OutOfFunds, c |-> AddReturnMessage(c, "callValue must be 0"), token |-> <<>>]
    ELSE LET used == UseGas(c, e.gasCost.ESDTOperations)
             existing == getExistingToken(used.c, args.Arguments[1])
         IN  IF used.err # ErrNone
             THEN [rc |-> OutOfGas, c |-> AddReturnMessage(c, "not enough gas"), token |-> <<>>]
             ELSE IF existing.err # ErrNone
             THEN [rc |-> UserError, c |-> AddReturnMessage(used.c, existing.err), token |-> <<>>]
             ELSE [rc |-> Ok, c |-> used.c, token |-> existing.token]

basicOwnershipChecks(e, c, args) ==
    IF args.CallValue # 0
    THEN [rc |-> OutOfFunds, c |-> AddReturnMessage(c, "callValue must be 0"), token |-> <<>>]
    ELSE LET used == UseGas(c, e.gasCost.ESDTOperations)
             existing == getExistingToken(used.c, args.Arguments[1])
         IN  IF used.err # ErrNone
             THEN [rc |-> OutOfGas, c |-> AddReturnMessage(c, "not enough gas"), token |-> <<>>]
             ELSE IF existing.err # ErrNone
             THEN [rc |-> UserError, c |-> AddReturnMessage(used.c, existing.err), token |-> <<>>]
             ELSE IF existing.token.OwnerAddress # args.CallerAddr
             THEN [rc |-> UserError, c |-> AddReturnMessage(used.c, "can be called by owner only"),
                   token |-> <<>>]
             ELSE [rc |-> Ok, c |-> used.c, token |-> existing.token]

mint(e, c, args) ==
    IF Len(args.Arguments) < 2 \/ Len(args.Arguments) > 3
    THEN Fail(FunctionWrongSignature, c, "accepted arguments number 2/3")
    ELSE LET checked == basicOwnershipChecks(e, c, args)
             mintValue == BytesToInt(args.Arguments[2])
             token == [checked.token EXCEPT !.MintedValue = @ + mintValue]
             saved == saveToken(checked.c, token)
             destination == IF Len(args.Arguments) = 3 THEN args.Arguments[3]
                            ELSE token.OwnerAddress
             esdtTransferData == [function |-> BuiltInFunctionESDTTransfer,
                                  token |-> token.TokenName, value |-> mintValue]
             sent == Transfer(saved, destination, ESDTSCAddress, 0, esdtTransferData)
         IN  IF checked.rc # Ok THEN Ret(checked.rc, checked.c)
             ELSE IF mintValue <= 0 THEN Fail(UserError, checked.c, "negative or zero mint value")
             ELSE IF ~checked.token.Mintable THEN Fail(UserError, checked.c, "token is not mintable")
             ELSE IF Len(args.Arguments) = 3 /\ Len(args.Arguments[3]) # Len(args.CallerAddr)
             THEN Fail(UserError, saved, "destination address of invalid length")
             ELSE IF sent.err # ErrNone THEN Fail(UserError, saved, sent.err)
             ELSE Ret(Ok, sent.c)

toggleFreeze(e, c, args, builtInFunc) ==
    IF Len(args.Arguments) # 2
    THEN Fail(FunctionWrongSignature, c, "invalid number of arguments, wanted 2")
    ELSE LET checked == basicOwnershipChecks(e, c, args)
             esdtTransferData == [function |-> builtInFunc, token |-> checked.token.TokenName]
             sent == Transfer(checked.c, args.Arguments[2], ESDTSCAddress, 0, esdtTransferData)
         IN  IF checked.rc # Ok THEN Ret(checked.rc, checked.c)
             ELSE IF ~checked.token.CanFreeze THEN Fail(UserError, checked.c, "cannot freeze")
             ELSE IF sent.err # ErrNone THEN Fail(UserError, checked.c, sent.err)
             ELSE Ret(Ok, sent.c)

wipe(e, c, args) ==
    IF Len(args.Arguments) # 2
    THEN Fail(FunctionWrongSignature, c, "invalid number of arguments, wanted 2")
    ELSE LET checked == basicOwnershipChecks(e, c, args)
             esdtTransferData == [function |-> BuiltInFunctionESDTWipe,
                                  token |-> checked.token.TokenName]
             sent == Transfer(checked.c, args.Arguments[2], ESDTSCAddress, 0, esdtTransferData)
         IN  IF checked.rc # Ok THEN Ret(checked.rc, checked.c)
             ELSE IF ~checked.token.CanWipe THEN Fail(UserError, checked.c, "cannot wipe")
             ELSE IF Len(args.Arguments[2]) # Len(args.CallerAddr)
             THEN Fail(UserError, checked.c, "invalid arguments")
             ELSE IF sent.err # ErrNone THEN Fail(UserError, checked.c, sent.err)
             ELSE Ret(Ok, sent.c)

\* Mutant: pause and unPause toggle the flag whatever its value.
togglePause_noRedundancyCheck(e, c, args, builtInFunc) ==
    IF Len(args.Arguments) # 1
    THEN Fail(FunctionWrongSignature, c, "invalid number of arguments, wanted 1")
    ELSE LET checked == basicOwnershipChecks(e, c, args)
             token == [checked.token EXCEPT !.IsPaused = ~@]
             saved == saveToken(checked.c, token)
             esdtTransferData == [function |-> builtInFunc, token |-> token.TokenName]
         IN  IF checked.rc # Ok THEN Ret(checked.rc, checked.c)
             ELSE IF ~checked.token.CanPause
             THEN Fail(UserError, checked.c, "cannot pause/un-pause")
             ELSE Ret(Ok, SendGlobalSettingToAll(saved, ESDTSCAddress, esdtTransferData))

togglePause(e, c, args, builtInFunc) ==
    IF Len(args.Arguments) # 1
    THEN Fail(FunctionWrongSignature, c, "invalid number of arguments, wanted 1")
    ELSE LET checked == basicOwnershipChecks(e, c, args)
             token == [checked.token EXCEPT !.IsPaused = ~@]
             saved == saveToken(checked.c, token)
             esdtTransferData == [function |-> builtInFunc, token |-> token.TokenName]
         IN  IF checked.rc # Ok THEN Ret(checked.rc, checked.c)
             ELSE IF ~checked.token.CanPause
             THEN Fail(UserError, checked.c, "cannot pause/un-pause")
             ELSE IF checked.token.IsPaused /\ builtInFunc = BuiltInFunctionESDTPause
             THEN Fail(UserError, checked.c, "cannot pause an already paused contract")
             ELSE IF ~checked.token.IsPaused /\ builtInFunc = BuiltInFunctionESDTUnPause
             THEN Fail(UserError, checked.c, "cannot unPause an already un-paused contract")
             ELSE Ret(Ok, SendGlobalSettingToAll(saved, ESDTSCAddress, esdtTransferData))

\* Mutant: the new configuration is saved before the gas is deducted.
configChange_saveBeforeGas(e, c, args) ==
    IF args.CallerAddr # ContractOwner
    THEN Fail(UserError, c, "configChange can be called by whitelisted address only")
    ELSE IF args.CallValue # 0
    THEN Fail(UserError, c, "callValue must be 0")
    ELSE IF Len(args.Arguments) # 4
    THEN Fail(UserError, c, "ErrInvalidNumOfArguments")
    ELSE LET newConfig == [kind |-> "ESDTConfig",
                           OwnerAddress |-> args.Arguments[1],
                           BaseIssuingCost |-> BytesToInt(args.Arguments[2]),
                           MinTokenNameLength |-> Uint32(args.Arguments[3]),
                           MaxTokenNameLength |-> Uint32(args.Arguments[4])]
             saved == saveESDTConfig(c, newConfig)
             used == UseGas(saved, e.gasCost.ESDTOperations)
         IN  IF Len(newConfig.OwnerAddress) # Len(args.RecipientAddr)
             THEN Fail(UserError, c,
                       "invalid arguments, first argument must be a valid address")
             ELSE IF newConfig.BaseIssuingCost < 0
             THEN Fail(UserError, c, "invalid new base issueing cost")
             ELSE IF newConfig.MinTokenNameLength > newConfig.MaxTokenNameLength
             THEN Fail(UserError, c, "invalid min and max token name lengths")
             ELSE IF used.err # ErrNone THEN Fail(OutOfGas, saved, used.err)
             ELSE Ret(Ok, used.c)

configChange(e, c, args) ==
    IF args.CallerAddr # ContractOwner
    THEN Fail(UserError, c, "configChange can be called by whitelisted address only")
    ELSE IF args.CallValue # 0
    THEN Fail(UserError, c, "callValue must be 0")
    ELSE LET used == UseGas(c, e.gasCost.ESDTOperations)
             newConfig == [kind |-> "ESDTConfig",
                           OwnerAddress |-> args.Arguments[1],
                           BaseIssuingCost |-> BytesToInt(args.Arguments[2]),
                           MinTokenNameLength |-> Uint32(args.Arguments[3]),
                           MaxTokenNameLength |-> Uint32(args.Arguments[4])]
         IN  IF used.err # ErrNone THEN Fail(OutOfGas, c, used.err)
             ELSE IF Len(args.Arguments) # 4
             THEN Fail(UserError, used.c, "ErrInvalidNumOfArguments")
             ELSE IF Len(newConfig.OwnerAddress) # Len(args.RecipientAddr)
             THEN Fail(UserError, used.c,
                       "invalid arguments, first argument must be a valid address")
             ELSE IF newConfig.BaseIssuingCost < 0
             THEN Fail(UserError, used.c, "invalid new base issueing cost")
             ELSE IF newConfig.MinTokenNameLength > newConfig.MaxTokenNameLength
             THEN Fail(UserError, used.c, "invalid min and max token name lengths")
             ELSE Ret(Ok, saveESDTConfig(used.c, newConfig))

claim(e, c, args) ==
    IF args.CallerAddr # ContractOwner
    THEN Fail(UserError, c, "claim can be called by whitelisted address only")
    ELSE IF args.CallValue # 0
    THEN Fail(UserError, c, "callValue must be 0")
    ELSE LET used == UseGas(c, e.gasCost.ESDTOperations)
             scBalance == used.c.balance
             sent == Transfer(used.c, args.CallerAddr, args.RecipientAddr, scBalance, <<>>)
         IN  IF used.err # ErrNone THEN Fail(OutOfGas, c, used.err)
             ELSE IF Len(args.Arguments) # 0
             THEN Fail(UserError, used.c, "ErrInvalidNumOfArguments")
             ELSE IF sent.err # ErrNone THEN Fail(UserError, used.c, sent.err)
             ELSE Ret(Ok, sent.c)

getAllESDTTokens(e, c, args) ==
    IF args.CallValue # 0
    THEN Fail(UserError, c, "callValue must be 0")
    ELSE IF Len(args.Arguments) # 0
    THEN Fail(UserError, c, "ErrInvalidNumOfArguments")
    ELSE LET used == UseGas(c, e.gasCost.ESDTOperations)
             savedData == GetStorage(used.c, allIssuedTokens)
             copied == UseGas(used.c, e.gasCost.DataCopyPerByte * BytesLen(savedData))
         IN  IF used.err # ErrNone THEN Fail(OutOfGas, c, used.err)
             ELSE IF copied.err # ErrNone THEN Fail(UserError, used.c, copied.err)
             ELSE Ret(Ok, Finish(copied.c, RawBytes(savedData)))

\* Mutant: the record is looked up before the gas is charged.
getTokenProperties_readFirst(e, c, args) ==
    IF args.CallValue # 0
    THEN Fail(UserError, c, "callValue must be 0")
    ELSE IF Len(args.Arguments) # 1
    THEN Fail(UserError, c, "ErrInvalidNumOfArguments")
    ELSE LET existing == getExistingToken(c, args.Arguments[1])
             used == UseGas(c, e.gasCost.ESDTOperations)
             esdtToken == existing.token
         IN  IF existing.err # ErrNone THEN Fail(UserError, c, existing.err)
             ELSE IF used.err # ErrNone THEN Fail(OutOfGas, c, used.err)
             ELSE Ret(Ok,
                  [used.c EXCEPT !.out = @ \o
                     << esdtToken.TokenName,
                        esdtToken.OwnerAddress,
                        DecimalBytes(esdtToken.MintedValue),
                        DecimalBytes(esdtToken.BurntValue),
                        "IsPaused-" \o getStringFromBool(esdtToken.IsPaused),
                        "CanUpgrade-" \o getStringFromBool(esdtToken.Upgradable),
                        "CanMint-" \o getStringFromBool(esdtToken.Mintable),
                        "CanBurn-" \o getStringFromBool(esdtToken.Burnable),
                        "CanChangeOwner-" \o getStringFromBool(esdtToken.CanChangeOwner),
                        "CanPause-" \o getStringFromBool(esdtToken.CanPause),
                        "CanFreeze-" \o getStringFromBool(esdtToken.CanFreeze),
                        "CanWipe-" \o getStringFromBool(esdtToken.CanWipe) >>])

getTokenProperties(e, c, args) ==
    IF args.CallValue # 0
    THEN Fail(UserError, c, "callValue must be 0")
    ELSE IF Len(args.Arguments) # 1
    THEN Fail(UserError, c, "ErrInvalidNumOfArguments")
    ELSE LET used == UseGas(c, e.gasCost.ESDTOperations)
             existing == getExistingToken(used.c, args.Arguments[1])
             esdtToken == existing.token
         IN  IF used.err # ErrNone THEN Fail(OutOfGas, c, used.err)
             ELSE IF existing.err # ErrNone THEN Fail(UserError, used.c, existing.err)
             ELSE Ret(Ok,
                  [used.c EXCEPT !.out = @ \o
                     << esdtToken.TokenName,
                        esdtToken.OwnerAddress,
                        DecimalBytes(esdtToken.MintedValue),
                        DecimalBytes(esdtToken.BurntValue),
                        "IsPaused-" \o getStringFromBool(esdtToken.IsPaused),
                        "CanUpgrade-" \o getStringFromBool(esdtToken.Upgradable),
                        "CanMint-" \o getStringFromBool(esdtToken.Mintable),
                        "CanBurn-" \o getStringFromBool(esdtToken.Burnable),
                        "CanChangeOwner-" \o getStringFromBool(esdtToken.CanChangeOwner),
                        "CanPause-" \o getStringFromBool(esdtToken.CanPause),
                        "CanFreeze-" \o getStringFromBool(esdtToken.CanFreeze),
                        "CanWipe-" \o getStringFromBool(esdtToken.CanWipe) >>])

transferOwnership(e, c, args) ==
    IF Len(args.Arguments) # 2
    THEN Fail(FunctionWrongSignature, c, "expected num of arguments 2")
    ELSE LET checked == basicOwnershipChecks(e, c, args)
             token == [checked.token EXCEPT !.OwnerAddress = args.Arguments[2]]
         IN  IF checked.rc # Ok THEN Ret(checked.rc, checked.c)
             ELSE IF ~checked.token.CanChangeOwner
             THEN Fail(UserError, checked.c, "cannot change owner of the token")
             ELSE IF Len(args.Arguments[2]) # Len(args.CallerAddr)
             THEN Fail(UserError, checked.c, "destination address of invalid length")
             ELSE Ret(Ok, saveToken(checked.c, token))

\* Mutant: the flags are changed whether or not the token is upgradable.
esdtControlChanges_noUpgradableCheck(e, c, args) ==
    IF Len(args.Arguments) < 2
    THEN Fail(FunctionWrongSignature, c, "not enough arguments")
    ELSE LET checked == basicOwnershipChecks(e, c, args)
             upgraded == upgradeProperties(checked.token, Rest(args.Arguments, 2))
         IN  IF checked.rc # Ok THEN Ret(checked.rc, checked.c)
             ELSE IF upgraded.err # ErrNone THEN Fail(UserError, checked.c, upgraded.err)
             ELSE Ret(Ok, saveToken(checked.c, upgraded.token))

esdtControlChanges(e, c, args) ==
    IF Len(args.Arguments) < 2
    THEN Fail(FunctionWrongSignature, c, "not enough arguments")
    ELSE LET checked == basicOwnershipChecks(e, c, args)
             upgraded == upgradeProperties(checked.token, Rest(args.Arguments, 2))
         IN  IF checked.rc # Ok THEN Ret(checked.rc, checked.c)
             ELSE IF ~checked.token.Upgradable
             THEN Fail(UserError, checked.c, "token is not upgradable")
             ELSE IF upgraded.err # ErrNone THEN Fail(UserError, checked.c, upgraded.err)
             ELSE Ret(Ok, saveToken(checked.c, upgraded.token))

\* CheckIfNil(args): the input, its CallValue or one of its addresses is nil.
CheckIfNil(args) == IF args.isNil THEN "ErrInputArgsIsNil" ELSE ErrNone

\* Execute between RLock and RUnlock.
Execute(e, c, args) ==
    IF CheckIfNil(args) # ErrNone THEN Ret(UserError, c)
    ELSE IF args.Function = SCDeployInitFunctionName THEN init(e, c, args)
    ELSE IF ~e.flagEnabled THEN Fail(UserError, c, "ESDT SC disabled")
    ELSE IF args.Function = "issue" THEN issue(e, c, args)
    ELSE IF args.Function = "issueProtected" THEN issueProtected(e, c, args)
    ELSE IF args.Function = BuiltInFunctionESDTBurn THEN burn(e, c, args)
    ELSE IF args.Function = "mint" THEN mint(e, c, args)
    ELSE IF args.Function = "freeze" THEN toggleFreeze(e, c, args, BuiltInFunctionESDTFreeze)
    ELSE IF args.Function = "unFreeze" THEN toggleFreeze(e, c, args, BuiltInFunctionESDTUnFreeze)
    ELSE IF args.Function = "wipe" THEN wipe(e, c, args)
    ELSE IF args.Function = "pause" THEN togglePause(e, c, args, BuiltInFunctionESDTPause)
    ELSE IF args.Function = "unPause" THEN togglePause(e, c, args, BuiltInFunctionESDTUnPause)
    ELSE IF args.Function = "claim" THEN claim(e, c, args)
    ELSE IF args.Function = "configChange" THEN configChange(e, c, args)
    ELSE IF args.Function = "esdtControlChanges" THEN esdtControlChanges(e, c, args)
    ELSE IF args.Function = "transferOwnership" THEN transferOwnership(e, c, args)
    ELSE IF args.Function = "getAllESDTTokens" THEN getAllESDTTokens(e, c, args)
    ELSE IF args.Function = "getTokenProperties" THEN getTokenProperties(e, c, args)
    ELSE Fail(FunctionNotFound, c, "invalid method to call")

(* SpecESDT: the contract under a sequence of Execute, EpochConfirmed and  *)
(* SetNewGasCost calls.                                                    *)

MaxMutations == 2      \* calls that change storage, per behaviour
SmallGas == 3          \* covers one operation, not the copy of the directory
AmpleGas == 60         \* covers every call of the alphabet

Alice == <<0, 2>>
Bob == <<0, 3>>
BadAddr == <<7>>
TokenA == <<65,66,67,68,69,70,49,50,51,52>>      \* "ABCDEF1234"
TokenB == <<84,79,75,69,78,48,48,48,48,50>>      \* "TOKEN00002"
ShortName == <<65,66,67,49,50,51>>               \* "ABC123"
BadName == <<65,66,67,68,69,70,95,50,51,52>>     \* "ABCDEF_234"
BytesMaybe == <<109,97,121,98,101>>              \* "maybe"
canFly == <<99,97,110,70,108,121>>               \* "canFly"

AllProperties ==
    <<burnable, BytesTrue, mintable, BytesTrue, canPause, BytesTrue, canFreeze, BytesTrue,
      canWipe, BytesTrue, canChangeOwner, BytesTrue>>

GasCosts ==
    { [ESDTIssue |-> 1, ESDTOperations |-> 1, DataCopyPerByte |-> 1],
      [ESDTIssue |-> 2, ESDTOperations |-> 2, DataCopyPerByte |-> 1] }

Epochs == 0..EnabledEpoch

\* What the environment behind e.eei offers one call: the gas left and whether
\* eei.Transfer succeeds.
Envs ==
    { [gas |-> 0, transferOk |-> TRUE],
      [gas |-> SmallGas, transferOk |-> TRUE],
      [gas |-> AmpleGas, transferOk |-> TRUE],
      [gas |-> AmpleGas, transferOk |-> FALSE] }

\* The operations that reach eei.Transfer, and the one that charges gas twice.
TransferringFunctions == {"issue", "issueProtected", "mint", "freeze", "unFreeze", "wipe", "claim"}
TwiceChargingFunctions == {"getAllESDTTokens"}

\* The environments that make a difference to a call of fn.
EnvsOf(fn) ==
    { env \in Envs :
        /\ (~env.transferOk) => fn \in TransferringFunctions
        /\ env.gas = SmallGas => fn \in TwiceChargingFunctions }

ArgumentsOf(fn) ==
    CASE fn = "issue" ->
           { <<TokenA>>, <<TokenA, <<1>>>>, <<TokenA, <<>>>>, <<ShortName, <<3, 232>>>>,
             <<BadName, <<1>>>>, <<TokenA, <<1>>>> \o AllProperties,
             <<configKeyPrefix, <<1>>, upgradable, BytesFalse>>, <<allIssuedTokens, <<1>>>>,
             <<TokenB, <<1>>, upgradable, BytesFalse>>,
             <<TokenA, <<1>>, burnable>>, <<TokenA, <<1>>, burnable, BytesMaybe>>,
             <<TokenA, <<1>>, canFly, BytesTrue>>,
             <<TokenA, <<1>>, burnable, BytesTrue, canFly, BytesTrue>> }
      [] fn = "issueProtected" ->
           { <<Alice, TokenA>>, <<BadAddr, TokenA, <<1>>>>, <<Alice, TokenA, <<1>>>>,
             <<Alice, <<>>, <<1>>>>,
             <<Alice, ShortName, <<1>>, burnable, BytesTrue>>,
             <<Alice, TokenA, <<1>>, mintable, BytesTrue, canWipe, BytesMaybe>> }
      [] fn \in {BuiltInFunctionESDTBurn} ->
           { <<TokenA>>, <<TokenA, <<1>>>>, <<TokenA, <<2>>>>, <<TokenA, <<>>>>,
             <<TokenB, <<1>>>>, <<ShortName, <<1>>>> }
      [] fn = "mint" ->
           { <<TokenA>>, <<TokenA, <<1>>>>, <<TokenA, <<>>>>, <<TokenA, <<1>>, Bob>>,
             <<TokenA, <<1>>, BadAddr>>, <<TokenB, <<1>>>> }
      [] fn \in {"freeze", "unFreeze", "wipe", "transferOwnership"} ->
           { <<TokenA>>, <<TokenA, Bob>>, <<TokenA, BadAddr>>, <<TokenB, Bob>> }
      [] fn \in {"pause", "unPause"} ->
           { <<>>, <<TokenA>>, <<TokenB>> }
      [] fn = "esdtControlChanges" ->
           { <<TokenA>>, <<TokenA, burnable, BytesFalse>>, <<TokenA, canFly, BytesTrue>>,
             <<TokenA, upgradable, BytesFalse>>, <<TokenB, burnable, BytesTrue>>,
             <<TokenA, burnable, BytesTrue, mintable, BytesMaybe>> }
      [] fn = "configChange" ->
           { <<>>, <<Alice, <<3>>, <<5>>, <<20>>>>, <<BadAddr, <<3>>, <<5>>, <<20>>>>,
             <<Alice, <<3>>, <<20>>, <<5>>>> }
      [] fn \in {"claim", "getAllESDTTokens"} ->
           { <<>>, <<TokenA>> }
      [] fn = "getTokenProperties" ->
           { <<>>, <<TokenA>>, <<TokenB>> }
      [] OTHER -> { <<>>, <<TokenA>> }

Functions ==
    { SCDeployInitFunctionName, "issue", "issueProtected", BuiltInFunctionESDTBurn, "mint",
      "freeze", "unFreeze", "wipe", "pause", "unPause", "claim", "configChange",
      "esdtControlChanges", "transferOwnership", "getAllESDTTokens", "getTokenProperties",
      "unknown" }

\* The vmcommon.ContractCallInput values offered to Execute.
Calls ==
    UNION { [ Function : {fn},
              CallerAddr : {ContractOwner, Alice},
              RecipientAddr : {ESDTSCAddress},
              CallValue : {0, InitialBaseIssuingCost},
              GasProvided : {1},
              Arguments : ArgumentsOf(fn),
              isNil : {FALSE} ] : fn \in Functions }
    \cup { [ Function |-> "issue", CallerAddr |-> <<>>, RecipientAddr |-> ESDTSCAddress,
             CallValue |-> 0, GasProvided |-> 1, Arguments |-> <<>>, isNil |-> TRUE ] }

NoCall == [Function |-> "", rc |-> ""]

ESDTInit ==
    /\ storage = <<>>
    /\ gasCost \in GasCosts
    /\ flagEnabled = FALSE
    /\ lastCall = NoCall
    /\ nmut = 0
    /\ lastEpoch = -1
    /\ initDone = FALSE
    /\ issuedOk = {}
    /\ epc = <<>> /\ eloc = <<>> /\ mutExecution = <<>> /\ concLog = <<>>
    /\ hbmi = <<>> /\ hbErr = ErrNone /\ lastCons = NoCons /\ createdAt = 0
    /\ maxSeen = 0 /\ regressed = FALSE /\ settled = FALSE /\ lastHeartbeat = 0
    /\ lastOp = NoOp /\ ncalls = 0
    /\ RaceIdle

\* lastCall records the call that has just returned, until the next notifier
\* call clears it; calls are explored one at a time from every state of the
\* contract (SetNewGasCost with the current cost leaves the contract as it is).
\* MaxMutations bounds the calls that change storage; a repeated init, which
\* only puts the default configuration back, is explored beyond the bound.
ExecuteCall ==
    /\ lastCall = NoCall
    /\ \E args \in Calls : \E env \in EnvsOf(args.Function) :
        LET c == NewContext(storage, env.gas, env.transferOk, 0)
            e == [gasCost |-> gasCost, flagEnabled |-> flagEnabled]
            r == Execute(e, c, args)
            isInit == CheckIfNil(args) = ErrNone /\ args.Function = SCDeployInitFunctionName
        IN  /\ r.c.storage # storage => (nmut < MaxMutations \/ (initDone /\ isInit))
            /\ storage' = r.c.storage
            /\ nmut' = IF r.c.storage # storage /\ nmut < MaxMutations THEN nmut + 1 ELSE nmut
            /\ initDone' = (initDone \/ isInit)
            /\ issuedOk' = IF r.rc = Ok /\ args.Function = "issue"
                           THEN issuedOk \cup {args.Arguments[1]}
                           ELSE IF r.rc = Ok /\ args.Function = "issueProtected"
                           THEN issuedOk \cup {args.Arguments[2]}
                           ELSE issuedOk
            /\ lastCall' = [Function |-> args.Function, rc |-> r.rc, call |-> args,
                            env |-> env, msg |-> r.c.msg, out |-> r.c.out,
                            transfers |-> r.c.transfers, broadcasts |-> r.c.broadcasts]
            /\ UNCHANGED <<gasCost, flagEnabled, lastEpoch, concVars, hbVars, raceVars>>

\* Mutant: the flag is set only for epochs after the activation epoch.
EpochConfirmed_strict ==
    \E epoch \in Epochs :
        /\ flagEnabled' = (epoch > EnabledEpoch)
        /\ lastEpoch' = epoch
        /\ lastCall' = NoCall
        /\ UNCHANGED <<storage, gasCost, nmut, initDone, issuedOk, concVars, hbVars, raceVars>>

EpochConfirmed ==
    \E epoch \in Epochs :
        /\ flagEnabled' = (epoch >= EnabledEpoch)
        /\ lastEpoch' = epoch
        /\ lastCall' = NoCall
        /\ UNCHANGED <<storage, gasCost, nmut, initDone, issuedOk, concVars, hbVars, raceVars>>

SetNewGasCost ==
    \E newCost \in GasCosts :
        /\ gasCost' = newCost
        /\ lastCall' = NoCall
        /\ UNCHANGED <<storage, flagEnabled, nmut, lastEpoch, initDone, issuedOk, concVars,
                       hbVars, raceVars>>

ESDTNext == ExecuteCall \/ EpochConfirmed \/ SetNewGasCost

SpecESDT == ESDTInit /\ [][ESDTNext]_vars

----------------------------------------------------------------------------
(* SpecConc: Execute calls of two goroutines and a SetNewGasCost call of a *)
(* third, one action per access to the shared storage, to e.gasCost and to *)
(* e.mutExecution.  Each eei call is taken to be atomic.  The contract has *)
(* been enabled by EpochConfirmed and its storage is still empty.          *)

MaxConcCalls == 2      \* Execute calls per goroutine
MaxGasSets == 1        \* SetNewGasCost calls

Executors == {"ex1", "ex2"}
GasSetter == "gs"
ConcProcs == Executors \cup {GasSetter}

\* The calls the two goroutines choose from.
ConcCalls ==
    { [Function |-> "issue", CallerAddr |-> caller, RecipientAddr |-> ESDTSCAddress,
       CallValue |-> InitialBaseIssuingCost, GasProvided |-> 1,
       Arguments |-> <<TokenA, <<1>>, mintable, BytesTrue>>, isNil |-> FALSE]
         : caller \in {Alice} }
    \cup
    { [Function |-> fn, CallerAddr |-> Alice, RecipientAddr |-> ESDTSCAddress,
       CallValue |-> 0, GasProvided |-> 1,
       Arguments |-> IF fn = "mint" THEN <<TokenA, <<1>>>> ELSE <<>>, isNil |-> FALSE]
         : fn \in {"mint", "getAllESDTTokens"} }

ConcLocIdle ==
    [call |-> NoCall, gas |-> 0, rc |-> "", token |-> <<>>, allTokens |-> EmptyBytes,
     costs |-> <<>>, newCost |-> <<>>, done |-> 0]

ConcInit ==
    /\ storage = <<>>
    /\ gasCost \in GasCosts
    /\ flagEnabled = TRUE
    /\ lastEpoch = EnabledEpoch
    /\ initDone = FALSE
    /\ issuedOk = {}
    /\ lastCall = NoCall
    /\ nmut = 0
    /\ epc = [p \in ConcProcs |-> "idle"]
    /\ eloc = [p \in ConcProcs |-> ConcLocIdle]
    /\ mutExecution = [readers |-> {}, writer |-> FALSE]
    /\ concLog = [okIssues |-> 0, okMints |-> 0]
    /\ hbmi = <<>> /\ hbErr = ErrNone /\ lastCons = NoCons /\ createdAt = 0
    /\ maxSeen = 0 /\ regressed = FALSE /\ settled = FALSE /\ lastHeartbeat = 0
    /\ lastOp = NoOp /\ ncalls = 0
    /\ RaceIdle

ConcFrame == UNCHANGED <<flagEnabled, lastCall, nmut, lastEpoch, initDone, issuedOk,
                         hbVars, raceVars>>

\* The eei as goroutine t sees it at this step.
ConcContext(t) == NewContext(storage, eloc[t].gas, TRUE, 0)

\* Goroutine t moves to label with its locals updated; rc is "" while the call runs.
ConcGoto(t, label, newLoc) ==
    /\ epc' = [epc EXCEPT ![t] = label]
    /\ eloc' = [eloc EXCEPT ![t] = newLoc]

\* Execute, lines 98-144: RLock, the enabled check and the dispatch.
ConcStart(t) ==
    /\ epc[t] = "idle"
    /\ eloc[t].done < MaxConcCalls
    /\ ~mutExecution.writer
    /\ \E call \in ConcCalls :
         LET l == [ConcLocIdle EXCEPT !.call = call, !.gas = AmpleGas, !.done = eloc[t].done]
         IN  IF ~flagEnabled
             THEN ConcGoto(t, "ret", [l EXCEPT !.rc = UserError])
             ELSE ConcGoto(t, CASE call.Function = "issue" -> "i_checks"
                                [] call.Function = "mint" -> "m_checks"
                                [] OTHER -> "g_gas1", l)
    /\ mutExecution' = [mutExecution EXCEPT !.readers = @ \cup {t}]
    /\ UNCHANGED <<storage, gasCost, concLog>>
    /\ ConcFrame

\* issue, lines 204-227: the gas charge, the configuration read and the checks.
I_Checks(t) ==
    /\ epc[t] = "i_checks"
    /\ LET l == eloc[t]
           args == l.call
           used == UseGas(ConcContext(t), gasCost.ESDTIssue)
           esdtConfig == getESDTConfig(used.c)
           charged == [l EXCEPT !.gas = used.c.gas, !.costs = Append(@, gasCost)]
       IN  IF Len(args.Arguments) < 2
           THEN ConcGoto(t, "ret", [l EXCEPT !.rc = FunctionWrongSignature])
           ELSE IF used.err # ErrNone
           THEN ConcGoto(t, "ret", [charged EXCEPT !.rc = OutOfGas])
           ELSE IF esdtConfig.err # ErrNone
           THEN ConcGoto(t, "ret", [charged EXCEPT !.rc = UserError])
           ELSE IF \/ Len(args.Arguments[1]) < esdtConfig.config.MinTokenNameLength
                   \/ Len(args.Arguments[1]) > esdtConfig.config.MaxTokenNameLength
           THEN ConcGoto(t, "ret", [charged EXCEPT !.rc = FunctionWrongSignature])
           ELSE IF args.CallValue # esdtConfig.config.BaseIssuingCost
           THEN ConcGoto(t, "ret", [charged EXCEPT !.rc = OutOfFunds])
           ELSE ConcGoto(t, "i_exists", charged)
    /\ UNCHANGED <<storage, gasCost, mutExecution, concLog>>
    /\ ConcFrame

\* issueToken, lines 251-275: the GetStorage of the identifier and the checks.
I_Exists(t) ==
    /\ epc[t] = "i_exists"
    /\ LET l == eloc[t]
           arguments == l.call.Arguments
           tokenName == arguments[1]
           initialSupply == BytesToInt(arguments[2])
           newESDTToken == [kind |-> "ESDTData",
                            OwnerAddress |-> l.call.CallerAddr,
                            TokenName |-> tokenName,
                            MintedValue |-> initialSupply,
                            BurntValue |-> 0,
                            Burnable |-> FALSE, Mintable |-> FALSE, CanPause |-> FALSE,
                            CanFreeze |-> FALSE, CanWipe |-> FALSE, Upgradable |-> TRUE,
                            CanChangeOwner |-> FALSE, IsPaused |-> FALSE]
           upgraded == upgradeProperties(newESDTToken, Rest(arguments, 3))
       IN  IF \/ initialSupply <= 0
              \/ HasStorage(ConcContext(t), tokenName)
              \/ ~isTokenNameHumanReadable(tokenName)
              \/ upgraded.err # ErrNone
           THEN ConcGoto(t, "ret", [l EXCEPT !.rc = UserError])
           ELSE ConcGoto(t, "i_save", [l EXCEPT !.token = upgraded.token])
    /\ UNCHANGED <<storage, gasCost, mutExecution, concLog>>
    /\ ConcFrame

\* issueToken, lines 277-287: saveToken and the Transfer (which succeeds).
I_Save(t) ==
    /\ epc[t] = "i_save"
    /\ storage' = saveToken(ConcContext(t), eloc[t].token).storage
    /\ ConcGoto(t, "i_dirread", eloc[t])
    /\ UNCHANGED <<gasCost, mutExecution, concLog>>
    /\ ConcFrame

\* addToIssuedTokens, line 661: the GetStorage of the directory.
I_DirRead(t) ==
    /\ epc[t] = "i_dirread"
    /\ ConcGoto(t, "i_dirwrite",
                [eloc[t] EXCEPT !.allTokens = GetStorage(ConcContext(t), allIssuedTokens)])
    /\ UNCHANGED <<storage, gasCost, mutExecution, concLog>>
    /\ ConcFrame

\* addToIssuedTokens, lines 662-668: the SetStorage of the directory.
I_DirWrite(t) ==
    /\ epc[t] = "i_dirwrite"
    /\ LET l == eloc[t]
           newToken == l.token.TokenName
           data == IF BytesLen(l.allTokens) = 0
                   THEN [kind |-> "bytes", data |-> newToken]
                   ELSE AppendBytes(l.allTokens, BytesAt \o newToken)
       IN  storage' = SetStorage(ConcContext(t), allIssuedTokens, data).storage
    /\ ConcGoto(t, "ret", [eloc[t] EXCEPT !.rc = Ok])
    /\ UNCHANGED <<gasCost, mutExecution, concLog>>
    /\ ConcFrame

\* mint, lines 388-404, with basicOwnershipChecks: the gas charge, the read
\* of the token record and the checks.
M_Checks(t) ==
    /\ epc[t] = "m_checks"
    /\ LET l == eloc[t]
           args == l.call
           e == [gasCost |-> gasCost, flagEnabled |-> flagEnabled]
           checked == basicOwnershipChecks(e, ConcContext(t), args)
           charged == [l EXCEPT !.gas = checked.c.gas, !.costs = Append(@, gasCost)]
           mintValue == BytesToInt(args.Arguments[2])
       IN  IF Len(args.Arguments) < 2 \/ Len(args.Arguments) > 3
           THEN ConcGoto(t, "ret", [l EXCEPT !.rc = FunctionWrongSignature])
           ELSE IF checked.rc = OutOfFunds
           THEN ConcGoto(t, "ret", [l EXCEPT !.rc = OutOfFunds])
           ELSE IF checked.rc # Ok
           THEN ConcGoto(t, "ret", [charged EXCEPT !.rc = checked.rc])
           ELSE IF mintValue <= 0 \/ ~checked.token.Mintable
           THEN ConcGoto(t, "ret", [charged EXCEPT !.rc = UserError])
           ELSE ConcGoto(t, "m_save",
                         [charged EXCEPT !.token =
                             [checked.token EXCEPT !.MintedValue = @ + mintValue]])
    /\ UNCHANGED <<storage, gasCost, mutExecution, concLog>>
    /\ ConcFrame

\* mint, lines 406-429: saveToken, the destination check and the Transfer.
M_Save(t) ==
    /\ epc[t] = "m_save"
    /\ storage' = saveToken(ConcContext(t), eloc[t].token).storage
    /\ LET args == eloc[t].call
       IN  IF Len(args.Arguments) = 3 /\ Len(args.Arguments[3]) # Len(args.CallerAddr)
           THEN ConcGoto(t, "ret", [eloc[t] EXCEPT !.rc = UserError])
           ELSE ConcGoto(t, "ret", [eloc[t] EXCEPT !.rc = Ok])
    /\ UNCHANGED <<gasCost, mutExecution, concLog>>
    /\ ConcFrame

\* getAllESDTTokens, lines 597-609: the checks and the first gas charge.
G_Gas1(t) ==
    /\ epc[t] = "g_gas1"
    /\ LET l == eloc[t]
           args == l.call
           used == UseGas(ConcContext(t), gasCost.ESDTOperations)
           charged == [l EXCEPT !.gas = used.c.gas, !.costs = Append(@, gasCost)]
       IN  IF args.CallValue # 0 \/ Len(args.Arguments) # 0
           THEN ConcGoto(t, "ret", [l EXCEPT !.rc = UserError])
           ELSE IF used.err # ErrNone
           THEN ConcGoto(t, "ret", [charged EXCEPT !.rc = OutOfGas])
           ELSE ConcGoto(t, "g_copy", charged)
    /\ UNCHANGED <<storage, gasCost, mutExecution, concLog>>
    /\ ConcFrame

\* getAllESDTTokens, lines 611-620: the directory read, the second gas charge
\* and Finish.
G_Copy(t) ==
    /\ epc[t] = "g_copy"
    /\ LET l == eloc[t]
           savedData == GetStorage(ConcContext(t), allIssuedTokens)
           used == UseGas(ConcContext(t), gasCost.DataCopyPerByte * BytesLen(savedData))
           charged == [l EXCEPT !.gas = used.c.gas, !.costs = Append(@, gasCost),
                                !.allTokens = savedData]
       IN  IF used.err # ErrNone
           THEN ConcGoto(t, "ret", [charged EXCEPT !.rc = UserError])
           ELSE ConcGoto(t, "ret", [charged EXCEPT !.rc = Ok])
    /\ UNCHANGED <<storage, gasCost, mutExecution, concLog>>
    /\ ConcFrame

\* Execute, line 99: the deferred RUnlock, and the return of the code.
ConcReturn(t) ==
    /\ epc[t] = "ret"
    /\ mutExecution' = [mutExecution EXCEPT !.readers = @ \ {t}]
    /\ concLog' = IF eloc[t].rc # Ok THEN concLog
                  ELSE IF eloc[t].call.Function = "issue"
                  THEN [concLog EXCEPT !.okIssues = @ + 1]
                  ELSE IF eloc[t].call.Function = "mint"
                  THEN [concLog EXCEPT !.okMints = @ + 1]
                  ELSE concLog
    /\ ConcGoto(t, "idle", [ConcLocIdle EXCEPT !.done = eloc[t].done + 1])
    /\ UNCHANGED <<storage, gasCost>>
    /\ ConcFrame

\* SetNewGasCost is called with a new cost.
GS_Start ==
    /\ epc[GasSetter] = "idle"
    /\ eloc[GasSetter].done < MaxGasSets
    /\ \E newCost \in GasCosts :
         ConcGoto(GasSetter, "gs_lock", [eloc[GasSetter] EXCEPT !.newCost = newCost])
    /\ UNCHANGED <<storage, gasCost, mutExecution, concLog>>
    /\ ConcFrame

\* Mutant: the writer takes the lock without waiting for the readers.
GS_Lock_noWait ==
    /\ epc[GasSetter] = "gs_lock"
    /\ ~mutExecution.writer
    /\ mutExecution' = [mutExecution EXCEPT !.writer = TRUE]
    /\ ConcGoto(GasSetter, "gs_write", eloc[GasSetter])
    /\ UNCHANGED <<storage, gasCost, concLog>>
    /\ ConcFrame

\* SetNewGasCost, line 805: mutExecution.Lock() returns once no goroutine
\* holds the lock for reading or writing.
GS_Lock ==
    /\ epc[GasSetter] = "gs_lock"
    /\ ~mutExecution.writer
    /\ mutExecution.readers = {}
    /\ mutExecution' = [mutExecution EXCEPT !.writer = TRUE]
    /\ ConcGoto(GasSetter, "gs_write", eloc[GasSetter])
    /\ UNCHANGED <<storage, gasCost, concLog>>
    /\ ConcFrame

\* SetNewGasCost, lines 806-807: the assignment and the Unlock.
GS_Write ==
    /\ epc[GasSetter] = "gs_write"
    /\ gasCost' = eloc[GasSetter].newCost
    /\ mutExecution' = [mutExecution EXCEPT !.writer = FALSE]
    /\ ConcGoto(GasSetter, "idle", [ConcLocIdle EXCEPT !.done = eloc[GasSetter].done + 1])
    /\ UNCHANGED <<storage, concLog>>
    /\ ConcFrame

ConcNext ==
    \/ \E t \in Executors :
          \/ ConcStart(t) \/ I_Checks(t) \/ I_Exists(t) \/ I_Save(t) \/ I_DirRead(t)
          \/ I_DirWrite(t) \/ M_Checks(t) \/ M_Save(t) \/ G_Gas1(t) \/ G_Copy(t)
          \/ ConcReturn(t)
    \/ GS_Start \/ GS_Lock \/ GS_Write

SpecConc == ConcInit /\ [][ConcNext]_vars

----------------------------------------------------------------------------
(* Claims about the record under a sequence of whole calls (Spec).         *)

\* The accounting fields of a record.
Accounting(h) ==
    <<h.totalUpTime, h.totalDownTime, h.lastUptimeDowntime, h.maxInactiveTime>>

TotalTime == Rec.totalUpTime + Rec.totalDownTime
\* The instant from which the record accounts time: the later of genesisTime
\* and the constructor's clock reading.
AccountingStart == maxDuration(Rec.genesisTime, createdAt)
AfterComputeActive ==
    Constructed /\ lastOp.op = "computeActive" /\ lastOp.now >= Rec.genesisTime

\* C1 (as stated): after computeActive(now) with now >= genesisTime,
\* totalUpTime + totalDownTime = now - genesisTime, whatever the construction
\* time and the preceding calls.  Stated here on the call sequences whose
\* current times never regress, where no interval is settled twice.
C1_SumEqualsSinceGenesis ==
    (AfterComputeActive /\ ~regressed) => TotalTime = lastOp.now - Rec.genesisTime

\* C1 (amended): when the current times of the calls never regress (each is
\* >= the constructor's clock reading and >= every earlier call's time), after
\* computeActive(now) with now >= genesisTime, totalUpTime + totalDownTime =
\* now - max(genesisTime, construction time).
C1_SumEqualsSinceStart ==
    (AfterComputeActive /\ ~regressed) => TotalTime = lastOp.now - AccountingStart

C1_Witness ==
    /\ AfterComputeActive
    /\ ~regressed
    /\ createdAt > Rec.genesisTime
    /\ lastOp.wasActive
    /\ Rec.totalUpTime > 0
    /\ Rec.totalDownTime > 0

\* C4: under any sequence of calls, timestamp regressions included, no instant
\* is credited twice and none is lost: totalUpTime + totalDownTime never
\* exceeds (greatest current time seen) - genesisTime, and after a settlement
\* at now it covers the whole accounted span up to now.
C4_NoDoubleCountNoLoss ==
    Constructed =>
        /\ TotalTime <= maxDuration(0, maxSeen - Rec.genesisTime)
        /\ (lastOp.op # "none" /\ lastOp.now >= Rec.genesisTime)
              => TotalTime >= lastOp.now - AccountingStart

\* C5 (as stated): lastUptimeDowntime >= genesisTime in every state of a
\* constructed record.
C5_LastTransitionAfterGenesis ==
    Constructed => Rec.lastUptimeDowntime >= Rec.genesisTime

\* C5 (amended): lastUptimeDowntime >= genesisTime holds from construction
\* when the constructor's clock reading is >= genesisTime, and in every state
\* after a call with current time >= genesisTime has returned; until then
\* lastUptimeDowntime is the constructor's clock reading.
C5_ClampedOnceSettled ==
    Constructed =>
        /\ (createdAt >= Rec.genesisTime \/ settled)
              => Rec.lastUptimeDowntime >= Rec.genesisTime
        /\ ~settled => Rec.lastUptimeDowntime = createdAt

C5_Witness ==
    /\ Constructed
    /\ createdAt < Rec.genesisTime
    /\ settled
    /\ lastOp.now < Rec.genesisTime
    /\ Rec.lastUptimeDowntime >= Rec.genesisTime

\* C6: when the last HeartbeatReceived happened at t (genesisTime if there was
\* none) and computeActive(now) runs with now - t > maxDurationPeerUnresponsive,
\* isActive is false when computeActive returns.
C6_SilentPeerInactive ==
    (Constructed /\ lastOp.op = "computeActive"
        /\ lastOp.now - lastHeartbeat > Rec.maxDurationPeerUnresponsive)
    => ~Rec.isActive

C6_Witness ==
    /\ Constructed
    /\ lastOp.op = "computeActive"
    /\ lastOp.wasActive
    /\ Rec.maxDurationPeerUnresponsive > 0
    /\ lastHeartbeat > Rec.genesisTime
    /\ lastOp.now - lastHeartbeat > Rec.maxDurationPeerUnresponsive
    /\ ~Rec.isActive

\* C7: when a HeartbeatReceived that no computeActive overlaps returns,
\* isActive is true, whatever the prior state and the clock reading.
C7_ActiveAfterHeartbeat ==
    (Constructed /\ lastOp.op = "HeartbeatReceived") => Rec.isActive

C7_Witness ==
    /\ Constructed
    /\ lastOp.op = "HeartbeatReceived"
    /\ ~lastOp.wasActive
    /\ lastOp.now < Rec.genesisTime
    /\ lastOp.now < lastHeartbeat + 1
    /\ regressed
    /\ Rec.isActive

\* C8: maxInactiveTime, totalUpTime and totalDownTime never decrease from one
\* state to the next, under increasing, equal or regressing current times.
C8_Monotonic ==
    [][(Constructed /\ Constructed')
         => /\ hbmi'[1].maxInactiveTime >= Rec.maxInactiveTime
            /\ hbmi'[1].totalUpTime >= Rec.totalUpTime
            /\ hbmi'[1].totalDownTime >= Rec.totalDownTime]_vars

C8_Witness ==
    /\ Constructed
    /\ regressed
    /\ Rec.maxInactiveTime > 0
    /\ Rec.totalUpTime > 0
    /\ Rec.totalDownTime > 0

\* C9: a zero threshold returns ErrInvalidMaxDurationPeerUnresponsive and no
\* record (also with a nil timer); a non-zero threshold with a nil timer
\* returns ErrNilTimer and no record; a failed construction yields no record.
C9_ConstructorErrors ==
    lastCons.called =>
        /\ lastCons.threshold = 0
              => (hbErr = ErrInvalidMaxDurationPeerUnresponsive /\ hbmi = <<>>)
        /\ (lastCons.threshold # 0 /\ timerIsNil(lastCons.timer))
              => (hbErr = ErrNilTimer /\ hbmi = <<>>)
        /\ hbErr # ErrNone => hbmi = <<>>
        /\ hbErr = ErrNone => Constructed

C9_Witness ==
    /\ lastCons.called
    /\ lastCons.threshold = 0
    /\ timerIsNil(lastCons.timer)
    /\ hbErr = ErrInvalidMaxDurationPeerUnresponsive
    /\ hbmi = <<>>

\* The interval a settlement at now closes on record h.
Elapsed(h, now) ==
    maxDuration(0, now - maxDuration(h.lastUptimeDowntime, h.genesisTime))

\* C24: a HeartbeatReceived or computeActive call at now >= genesisTime adds
\* elapsed = max(0, now - max(lastUptimeDowntime, genesisTime)) to exactly one
\* of the two totals and leaves the other as it was: HeartbeatReceived credits
\* totalUpTime iff the record was active before the call and now - previous
\* timeStamp <= threshold, computeActive iff isActive is still true after its
\* re-evaluation; then lastUptimeDowntime is now.
C24_SettlementCredit ==
    [][(/\ Constructed
        /\ ncalls' = ncalls + 1
        /\ lastOp'.now >= Rec.genesisTime)
       => LET now == lastOp'.now
              after == hbmi'[1]
              up == IF lastOp'.op = "HeartbeatReceived"
                    THEN Rec.isActive /\ now - Rec.timeStamp <= Rec.maxDurationPeerUnresponsive
                    ELSE after.isActive
          IN  /\ after.totalUpTime = Rec.totalUpTime + (IF up THEN Elapsed(Rec, now) ELSE 0)
              /\ after.totalDownTime = Rec.totalDownTime + (IF up THEN 0 ELSE Elapsed(Rec, now))
              /\ after.lastUptimeDowntime = now]_vars

\* computeActive found an active peer silent for too long and credited the
\* interval it closed to totalDownTime, after an interval credited as up-time.
C24_Witness ==
    /\ Constructed
    /\ lastOp.op = "computeActive"
    /\ lastOp.wasActive
    /\ ~Rec.isActive
    /\ lastOp.now >= Rec.genesisTime
    /\ Rec.lastUptimeDowntime = lastOp.now
    /\ Rec.totalUpTime > 0
    /\ Rec.totalDownTime > 0
    /\ Rec.totalUpTime + Rec.totalDownTime = lastOp.now - Rec.genesisTime

\* C25: a HeartbeatReceived or computeActive call whose current time precedes
\* genesisTime leaves totalUpTime, totalDownTime, lastUptimeDowntime and
\* maxInactiveTime as they were; computeActive changes at most isActive, and
\* HeartbeatReceived also timeStamp and the shard, version and name fields.
C25_NoAccountingBeforeGenesis ==
    [][(/\ Constructed
        /\ ncalls' = ncalls + 1
        /\ lastOp'.now < Rec.genesisTime)
       => (/\ Accounting(hbmi'[1]) = Accounting(Rec)
           /\ lastOp'.op = "computeActive" =>
                 [hbmi'[1] EXCEPT !.isActive = Rec.isActive] = Rec
           /\ hbmi'[1].genesisTime = Rec.genesisTime
           /\ hbmi'[1].maxDurationPeerUnresponsive = Rec.maxDurationPeerUnresponsive
           /\ hbmi'[1].isValidator = Rec.isValidator)]_vars

\* A heartbeat stamped before genesisTime arrived at an inactive record that
\* had already accounted down-time and a period of inactivity: it made the
\* record active and moved timeStamp, and the accounting stayed.
C25_Witness ==
    /\ Constructed
    /\ lastOp.op = "HeartbeatReceived"
    /\ lastOp.now < Rec.genesisTime
    /\ ~lastOp.wasActive
    /\ Rec.isActive
    /\ Rec.timeStamp = lastOp.now
    /\ Rec.totalDownTime > 0
    /\ Rec.maxInactiveTime > 0
    /\ Rec.lastUptimeDowntime > lastOp.now

\* C34: computeActive never makes an inactive record active: whatever the
\* state and the current time, a record whose isActive is false before the
\* call has it false after; a step that turns isActive from false to true is
\* a HeartbeatReceived.
C34_ComputeActiveNeverActivates ==
    [][(/\ Constructed
        /\ ncalls' = ncalls + 1
        /\ ~Rec.isActive)
       => (/\ lastOp'.op = "computeActive" => ~hbmi'[1].isActive
           /\ hbmi'[1].isActive => lastOp'.op = "HeartbeatReceived")]_vars

\* computeActive has run on an inactive record at a time within the
\* threshold of its last heartbeat, after genesis, and the record is still
\* inactive.
C34_Witness ==
    /\ Constructed
    /\ lastOp.op = "computeActive"
    /\ ~lastOp.wasActive
    /\ ~Rec.isActive
    /\ lastOp.now >= Rec.genesisTime
    /\ lastOp.now >= Rec.timeStamp
    /\ lastOp.now - Rec.timeStamp <= Rec.maxDurationPeerUnresponsive

\* C36: every record the constructor returns has a positive
\* maxDurationPeerUnresponsive, so that some positive silence interval
\* counts as a valid duration.
C36_PositiveThreshold ==
    Constructed => Rec.maxDurationPeerUnresponsive > 0

----------------------------------------------------------------------------
(* Claims about concurrent calls on one record (SpecRace).                 *)

\* A goroutine is in the middle of a call's accesses to the record: it has
\* made the first and has not yet made the last.
InBody(p) == pc[p] \notin {"idle", "hb63", "ca71", "ca72"}

\* C2: HeartbeatReceived and computeActive (or two HeartbeatReceived) are
\* never both in the middle of reading and writing the same record's fields.
C2_MutualExclusion ==
    \A p \in RaceProcs, q \in RaceProcs :
        p # q => ~(InBody(p) /\ InBody(q))

\* The calls started since the record was last quiescent are exactly one
\* HeartbeatReceived and one computeActive, they overlapped, ran with the same
\* current time, and both have returned.
ConcurrentPairReturned ==
    /\ AllIdle
    /\ Len(raceLog.calls) = 2
    /\ \E i \in 1..2, j \in 1..2 :
          /\ raceLog.calls[i].who \in HBProcs
          /\ raceLog.calls[j].who \in CAProcs
          /\ raceLog.calls[i].now = raceLog.calls[j].now

\* C3: when a HeartbeatReceived and a computeActive run concurrently with the
\* same current time (threshold > 0), isActive is true once both have
\* returned, under every interleaving.
C3_MessageWins ==
    (ConcurrentPairReturned /\ Rec.maxDurationPeerUnresponsive > 0) => Rec.isActive

\* The accounting fields after the two calls of the pair run one after the
\* other on the record as it was before them, in the two orders.
AfterHeartbeatThenCompute(pre, hbNow, caNow) ==
    Accounting(computeActive(HeartbeatReceived(pre, hbNow, 0, 0, "v1", "node"), caNow))
AfterComputeThenHeartbeat(pre, hbNow, caNow) ==
    Accounting(HeartbeatReceived(computeActive(pre, caNow), hbNow, 0, 0, "v1", "node"))

\* C23: when a HeartbeatReceived and a computeActive have run concurrently on
\* one record and both have returned, totalUpTime, totalDownTime,
\* lastUptimeDowntime and maxInactiveTime are those one of the two sequential
\* orders of the calls produces from the record as it was before them.
C23_ConcurrentAsSequential ==
    (AllIdle /\ Len(raceLog.calls) = 2) =>
        \A i \in 1..2, j \in 1..2 :
            (raceLog.calls[i].who \in HBProcs /\ raceLog.calls[j].who \in CAProcs) =>
                \/ Accounting(Rec) = AfterHeartbeatThenCompute(raceLog.pre[1],
                                        raceLog.calls[i].now, raceLog.calls[j].now)
                \/ Accounting(Rec) = AfterComputeThenHeartbeat(raceLog.pre[1],
                                        raceLog.calls[i].now, raceLog.calls[j].now)

---------------------------------------------------------------------------
(* Claims about the ESDT contract (SpecESDT).                              *)

\* C10 (as stated): whenever Execute returns OutOfGas, whatever the operation,
\* the contract storage after the call is the storage before the call.
C10_OutOfGasNoMutation ==
    [][lastCall'.rc = OutOfGas => storage' = storage]_vars

\* C10 (amended): whenever Execute returns OutOfGas for an operation other than
\* ESDTBurn, the contract storage after the call is the storage before the call.
C10_OutOfGasNoMutationExceptBurn ==
    [][(lastCall'.rc = OutOfGas /\ lastCall'.Function # BuiltInFunctionESDTBurn)
          => storage' = storage]_vars

\* A configChange by the contract owner ran out of gas with tokens in storage.
C10_Witness ==
    /\ lastCall.rc = OutOfGas
    /\ lastCall.Function = "configChange"
    /\ TokenA \in DOMAIN storage

\* C11: whenever Execute returns UserError, whatever the operation and the
\* arguments, the contract storage after the call is the storage before it.
C11_UserErrorNoMutation ==
    [][lastCall'.rc = UserError => storage' = storage]_vars

\* C14: the contract is enabled exactly when the last confirmed epoch is at
\* least enabledEpoch (never, before the first EpochConfirmed); while it is not
\* enabled, every Execute call of a function other than the init function
\* returns UserError and leaves the storage as it was.
C14_DisabledRejects ==
    /\ [](flagEnabled <=> lastEpoch >= EnabledEpoch)
    /\ [][(/\ lastEpoch < EnabledEpoch
           /\ lastCall' # NoCall
           /\ lastCall'.Function # SCDeployInitFunctionName)
          => (lastCall'.rc = UserError /\ storage' = storage)]_vars

\* The token's owner calls mint with ample gas after the contract was enabled,
\* a token issued, and an epoch below enabledEpoch confirmed: the call is refused.
C14_Witness ==
    /\ lastEpoch < EnabledEpoch
    /\ ~flagEnabled
    /\ TokenA \in DOMAIN storage
    /\ lastCall.Function = "mint"
    /\ lastCall.call.Arguments = <<TokenA, <<1>>>>
    /\ lastCall.call.CallerAddr = storage[TokenA].OwnerAddress
    /\ lastCall.call.CallValue = 0
    /\ lastCall.env.gas = AmpleGas
    /\ storage[TokenA].Mintable
    /\ lastCall.rc = UserError
    /\ lastCall.msg = "ESDT SC disabled"

\* The stored configuration is the one init writes (no configChange since).
DefaultConfigInForce ==
    /\ configKeyPrefix \in DOMAIN storage
    /\ storage[configKeyPrefix] = DefaultESDTConfig

\* C15: with the default configuration in force and the contract enabled, an
\* issue call for "ABC123" with initial supply 1000, no optional flags, enough
\* gas and CallValue equal to the base issuing cost returns Ok and stores the
\* record with owner = caller, MintedValue 1000, BurntValue 0, Upgradable true
\* and every other flag false.
C15_IssueABC123 ==
    [][(/\ flagEnabled
        /\ DefaultConfigInForce
        /\ ShortName \notin DOMAIN storage
        /\ lastCall' # NoCall
        /\ lastCall'.Function = "issue"
        /\ lastCall'.call.Arguments = <<ShortName, <<3, 232>>>>
        /\ lastCall'.call.CallValue = DefaultESDTConfig.BaseIssuingCost
        /\ lastCall'.env = [gas |-> AmpleGas, transferOk |-> TRUE])
       => (/\ lastCall'.rc = Ok
           /\ ShortName \in DOMAIN storage'
           /\ storage'[ShortName] =
                [kind |-> "ESDTData", OwnerAddress |-> lastCall'.call.CallerAddr,
                 TokenName |-> ShortName, MintedValue |-> 1000, BurntValue |-> 0,
                 Burnable |-> FALSE, Mintable |-> FALSE, CanPause |-> FALSE,
                 CanFreeze |-> FALSE, CanWipe |-> FALSE, Upgradable |-> TRUE,
                 CanChangeOwner |-> FALSE, IsPaused |-> FALSE])]_vars

\* The stored value under name is a token record.
TokenExists(st, name) == name \in DOMAIN st /\ IsESDTData(st[name])

\* The configuration issue and issueProtected read from storage st.
ConfigIn(st) == getESDTConfig(NewContext(st, 0, TRUE, 0)).config

\* The arguments issue / issueProtected hand to issueToken, once the call has
\* enough of them.
IsIssueCall(call) ==
    \/ call.Function = "issue" /\ Len(call.Arguments) >= 2
    \/ call.Function = "issueProtected" /\ Len(call.Arguments) >= 3
IssueArguments(call) ==
    IF call.Function = "issue" THEN call.Arguments ELSE Rest(call.Arguments, 2)

\* The call passes every check issue / issueProtected make before issueToken
\* (the stored configuration can be read among them), and its initial supply
\* is positive.
ReachesIssueToken(call, env) ==
    /\ flagEnabled
    /\ env.gas >= gasCost.ESDTIssue
    /\ getESDTConfig(NewContext(storage, 0, TRUE, 0)).err = ErrNone
    /\ call.CallValue = ConfigIn(storage).BaseIssuingCost
    /\ BytesToInt(IssueArguments(call)[2]) > 0
    /\ call.Function = "issue" =>
          /\ Len(call.Arguments[1]) >= ConfigIn(storage).MinTokenNameLength
          /\ Len(call.Arguments[1]) <= ConfigIn(storage).MaxTokenNameLength
    /\ call.Function = "issueProtected" =>
          /\ call.CallerAddr = ContractOwner
          /\ Len(call.Arguments[1]) = Len(call.CallerAddr)

\* C16: once a token record is stored under an identifier, no issue or
\* issueProtected call for that identifier returns Ok or changes the storage,
\* whoever calls and whatever the supply and the flags; a call that gets as
\* far as issueToken with a positive supply returns UserError with the
\* token-already-registered error.
C16_NoReissue ==
    [][(/\ lastCall' # NoCall
        /\ IsIssueCall(lastCall'.call)
        /\ TokenExists(storage, IssueArguments(lastCall'.call)[1]))
       => (/\ lastCall'.rc # Ok
           /\ storage' = storage
           /\ ReachesIssueToken(lastCall'.call, lastCall'.env)
                => (/\ lastCall'.rc = UserError
                    /\ lastCall'.msg = "ErrTokenAlreadyRegistered"))]_vars

\* A caller other than the token's owner issues the registered identifier
\* again, with flags, and is refused; the record and the directory are there.
C16_Witness ==
    /\ lastCall # NoCall
    /\ lastCall.Function = "issue"
    /\ lastCall.call.Arguments = <<TokenA, <<1>>>> \o AllProperties
    /\ TokenExists(storage, TokenA)
    /\ allIssuedTokens \in DOMAIN storage
    /\ storage[TokenA].OwnerAddress # lastCall.call.CallerAddr
    /\ storage[TokenA].Burnable = FALSE
    /\ lastCall.rc = UserError
    /\ lastCall.msg = "ErrTokenAlreadyRegistered"

\* C17: a burn call with exactly 2 arguments, zero CallValue, a positive
\* amount, an existing burnable token and gas for GasProvided returns Ok and
\* adds exactly the amount to the stored BurntValue, changing nothing else,
\* whoever the caller is and however BurntValue compares with MintedValue.
C17_BurnAccepted ==
    [][(/\ lastCall' # NoCall
        /\ lastCall'.Function = BuiltInFunctionESDTBurn
        /\ flagEnabled
        /\ Len(lastCall'.call.Arguments) = 2
        /\ lastCall'.call.CallValue = 0
        /\ BytesToInt(lastCall'.call.Arguments[2]) > 0
        /\ TokenExists(storage, lastCall'.call.Arguments[1])
        /\ storage[lastCall'.call.Arguments[1]].Burnable
        /\ lastCall'.env.gas >= lastCall'.call.GasProvided)
       => (/\ lastCall'.rc = Ok
           /\ storage' = [storage EXCEPT ![lastCall'.call.Arguments[1]].BurntValue =
                                           @ + BytesToInt(lastCall'.call.Arguments[2])])]_vars

\* A caller who is not the owner has burnt more than was ever minted.
C17_Witness ==
    /\ lastCall # NoCall
    /\ lastCall.Function = BuiltInFunctionESDTBurn
    /\ lastCall.rc = Ok
    /\ lastCall.call.Arguments = <<TokenA, <<2>>>>
    /\ TokenExists(storage, TokenA)
    /\ lastCall.call.CallerAddr # storage[TokenA].OwnerAddress
    /\ storage[TokenA].BurntValue > storage[TokenA].MintedValue

\* The call asks for the pause state the token already has.
RedundantPause(call) ==
    \/ call.Function = "pause" /\ storage[call.Arguments[1]].IsPaused
    \/ call.Function = "unPause" /\ ~storage[call.Arguments[1]].IsPaused

\* C18: a pause call on a paused token and an unPause call on a token that is
\* not paused never return Ok, leave the storage (so IsPaused) as it was and
\* send no broadcast, and return UserError once the contract is enabled, the
\* CallValue zero and the gas sufficient; a pause or unPause call that returns
\* Ok flips IsPaused, so successful pause and unPause calls alternate.
C18_RedundantPauseRejected ==
    [][(/\ lastCall' # NoCall
        /\ lastCall'.Function \in {"pause", "unPause"}
        /\ Len(lastCall'.call.Arguments) = 1
        /\ TokenExists(storage, lastCall'.call.Arguments[1]))
       => (/\ RedundantPause(lastCall'.call) =>
                /\ lastCall'.rc # Ok
                /\ storage' = storage
                /\ lastCall'.broadcasts = <<>>
                /\ (/\ flagEnabled
                    /\ lastCall'.call.CallValue = 0
                    /\ lastCall'.env.gas >= gasCost.ESDTOperations) => lastCall'.rc = UserError
           /\ lastCall'.rc = Ok =>
                /\ storage[lastCall'.call.Arguments[1]].IsPaused = (lastCall'.Function = "unPause")
                /\ storage'[lastCall'.call.Arguments[1]].IsPaused = (lastCall'.Function = "pause"))]_vars

\* The owner pauses a token that is already paused and is refused.
C18_Witness ==
    /\ lastCall # NoCall
    /\ lastCall.Function = "pause"
    /\ lastCall.call.Arguments = <<TokenA>>
    /\ TokenExists(storage, TokenA)
    /\ storage[TokenA].IsPaused
    /\ lastCall.call.CallerAddr = storage[TokenA].OwnerAddress
    /\ lastCall.rc = UserError
    /\ lastCall.msg = "cannot pause an already paused contract"
    /\ lastCall.broadcasts = <<>>

\* Some byte of name is outside a-z, A-Z, 0-9.
HasByteOutsideAlnum(name) ==
    \E i \in 1..Len(name) : name[i] \notin ((48..57) \cup (65..90) \cup (97..122))

\* C19: an issue or issueProtected call that reaches issueToken with a
\* positive supply and an identifier that is not in storage and has a byte
\* outside a-z, A-Z, 0-9 returns UserError with the name-not-human-readable
\* error, makes no transfer and leaves the storage (token records and the
\* directory) as it was.
C19_UnreadableNameRejected ==
    [][(/\ lastCall' # NoCall
        /\ IsIssueCall(lastCall'.call)
        /\ BytesLen(GetStorage([storage |-> storage], IssueArguments(lastCall'.call)[1])) = 0
        /\ HasByteOutsideAlnum(IssueArguments(lastCall'.call)[1])
        /\ ReachesIssueToken(lastCall'.call, lastCall'.env))
       => (/\ lastCall'.rc = UserError
           /\ lastCall'.msg = "ErrTokenNameNotHumanReadable"
           /\ lastCall'.transfers = <<>>
           /\ storage' = storage)]_vars

\* "ABCDEF_234" was refused while the directory already listed a token.
C19_Witness ==
    /\ lastCall # NoCall
    /\ lastCall.Function = "issue"
    /\ lastCall.call.Arguments = <<BadName, <<1>>>>
    /\ lastCall.rc = UserError
    /\ lastCall.msg = "ErrTokenNameNotHumanReadable"
    /\ BadName \notin DOMAIN storage
    /\ allIssuedTokens \in DOMAIN storage

\* The number of arguments the operation accepts.
ValidArgumentCount(call) ==
    LET n == Len(call.Arguments)
    IN  CASE call.Function = "issue" -> n >= 2
          [] call.Function = "issueProtected" -> n >= 3
          [] call.Function = "mint" -> n \in {2, 3}
          [] call.Function \in {BuiltInFunctionESDTBurn, "freeze", "unFreeze", "wipe",
                                "transferOwnership"} -> n = 2
          [] call.Function \in {"pause", "unPause", "getTokenProperties"} -> n = 1
          [] call.Function = "esdtControlChanges" -> n >= 2
          [] call.Function = "configChange" -> n = 4
          [] call.Function \in {"claim", "getAllESDTTokens"} -> n = 0
          [] OTHER -> FALSE

\* The caller is the one the operation is reserved for: the contract owner,
\* the owner of the token named by the first argument, or anyone.
AuthorizedCaller(call) ==
    CASE call.Function \in {"issueProtected", "configChange", "claim"} ->
            call.CallerAddr = ContractOwner
      [] call.Function \in {"mint", "freeze", "unFreeze", "wipe", "pause", "unPause",
                            "transferOwnership", "esdtControlChanges"} ->
            /\ TokenExists(storage, call.Arguments[1])
            /\ storage[call.Arguments[1]].OwnerAddress = call.CallerAddr
      [] OTHER -> TRUE

\* The CallValue the operation requires.
RequiredCallValue(call) ==
    IF call.Function \in {"issue", "issueProtected"}
    THEN ConfigIn(storage).BaseIssuingCost
    ELSE 0

\* The checks issue and issueProtected make on their arguments before they
\* look at the CallValue.
IssueArgumentsWellFormed(call) ==
    /\ call.Function = "issue" =>
          /\ Len(call.Arguments[1]) >= ConfigIn(storage).MinTokenNameLength
          /\ Len(call.Arguments[1]) <= ConfigIn(storage).MaxTokenNameLength
    /\ call.Function = "issueProtected" => Len(call.Arguments[1]) = Len(call.CallerAddr)

\* C20: for every operation, a call with a valid argument count, from an
\* authorized caller, with sufficient gas, whose CallValue differs from the
\* amount the operation requires returns OutOfFunds and leaves the storage
\* as it was.
C20_ValueMismatchOutOfFunds ==
    [][(/\ lastCall' # NoCall
        /\ flagEnabled
        /\ ~lastCall'.call.isNil
        /\ ValidArgumentCount(lastCall'.call)
        /\ AuthorizedCaller(lastCall'.call)
        /\ IssueArgumentsWellFormed(lastCall'.call)
        /\ lastCall'.env.gas = AmpleGas
        /\ lastCall'.call.CallValue # RequiredCallValue(lastCall'.call))
       => (lastCall'.rc = OutOfFunds /\ storage' = storage)]_vars

\* The function names Execute dispatches on once the contract is enabled.
RecognizedFunctions ==
    { "issue", "issueProtected", BuiltInFunctionESDTBurn, "mint", "freeze", "unFreeze",
      "wipe", "pause", "unPause", "claim", "configChange", "esdtControlChanges",
      "transferOwnership", "getAllESDTTokens", "getTokenProperties" }

\* C21: with the contract enabled, a call of a recognized function with an
\* argument count the function does not accept (zero CallValue, ample gas,
\* the contract owner calling where the function is reserved for it) returns
\* FunctionWrongSignature and leaves the storage as it was, and a call of any
\* other function name, the init function aside, returns FunctionNotFound.
C21_WrongArgumentCount ==
    [][(/\ lastCall' # NoCall
        /\ flagEnabled
        /\ ~lastCall'.call.isNil
        /\ lastCall'.Function # SCDeployInitFunctionName)
       => (/\ (/\ lastCall'.Function \in RecognizedFunctions
               /\ ~ValidArgumentCount(lastCall'.call)
               /\ lastCall'.call.CallValue = 0
               /\ lastCall'.env.gas = AmpleGas
               /\ lastCall'.Function \in {"issueProtected", "configChange", "claim"}
                     => lastCall'.call.CallerAddr = ContractOwner)
                => (lastCall'.rc = FunctionWrongSignature /\ storage' = storage)
           /\ lastCall'.Function \notin RecognizedFunctions
                => lastCall'.rc = FunctionNotFound)]_vars

\* C22: init takes effect once per deployment: once an init call has stored
\* the default configuration, a later Execute call of the init function leaves
\* the stored configuration record as it was, a configuration written by
\* configChange included.
C22_InitOnce ==
    [][(/\ initDone
        /\ lastCall' # NoCall
        /\ ~lastCall'.call.isNil
        /\ lastCall'.Function = SCDeployInitFunctionName)
       => (/\ configKeyPrefix \in DOMAIN storage'
           /\ storage'[configKeyPrefix] = storage[configKeyPrefix])]_vars

\* C26: burn persists the increased BurntValue before it deducts the gas: a
\* burn call that passes every check (two arguments, zero CallValue, positive
\* amount, existing burnable token) with less gas left than GasProvided
\* returns OutOfGas, and the stored BurntValue has grown by the amount all the
\* same, nothing else in storage having changed.
C26_BurnSavedBeforeGas ==
    [][(/\ lastCall' # NoCall
        /\ lastCall'.Function = BuiltInFunctionESDTBurn
        /\ flagEnabled
        /\ Len(lastCall'.call.Arguments) = 2
        /\ lastCall'.call.CallValue = 0
        /\ BytesToInt(lastCall'.call.Arguments[2]) > 0
        /\ TokenExists(storage, lastCall'.call.Arguments[1])
        /\ storage[lastCall'.call.Arguments[1]].Burnable
        /\ lastCall'.env.gas < lastCall'.call.GasProvided)
       => (/\ lastCall'.rc = OutOfGas
           /\ storage' = [storage EXCEPT ![lastCall'.call.Arguments[1]].BurntValue =
                                           @ + BytesToInt(lastCall'.call.Arguments[2])])]_vars

\* A burn of two units ran out of gas and the two units are in BurntValue.
C26_Witness ==
    /\ lastCall # NoCall
    /\ lastCall.Function = BuiltInFunctionESDTBurn
    /\ lastCall.rc = OutOfGas
    /\ lastCall.env.gas < lastCall.call.GasProvided
    /\ lastCall.call.Arguments = <<TokenA, <<2>>>>
    /\ TokenExists(storage, TokenA)
    /\ storage[TokenA].BurntValue = 2
    /\ nmut = 2

\* The operations reserved for the token's owner that also need a capability
\* of the token, and whether the token has the capability the operation needs.
OwnerOperations ==
    {"mint", "freeze", "unFreeze", "wipe", "transferOwnership", "esdtControlChanges"}
HasCapability(token, fn) ==
    CASE fn = "mint" -> token.Mintable
      [] fn \in {"freeze", "unFreeze"} -> token.CanFreeze
      [] fn = "wipe" -> token.CanWipe
      [] fn = "transferOwnership" -> token.CanChangeOwner
      [] fn = "esdtControlChanges" -> token.Upgradable

\* C27: mint, freeze, unFreeze, wipe, transferOwnership and esdtControlChanges,
\* called with a valid argument count, zero CallValue and sufficient gas on an
\* existing token, return UserError, leave the storage as it was and make no
\* transfer and no broadcast when the caller is not the record's OwnerAddress,
\* and also when the caller is the owner and the capability the operation
\* needs (Mintable, CanFreeze, CanWipe, CanChangeOwner, Upgradable) is false.
C27_OwnerAndCapability ==
    [][(/\ lastCall' # NoCall
        /\ flagEnabled
        /\ lastCall'.Function \in OwnerOperations
        /\ ValidArgumentCount(lastCall'.call)
        /\ lastCall'.call.CallValue = 0
        /\ lastCall'.env.gas >= gasCost.ESDTOperations
        /\ TokenExists(storage, lastCall'.call.Arguments[1])
        /\ \/ storage[lastCall'.call.Arguments[1]].OwnerAddress # lastCall'.call.CallerAddr
           \/ ~HasCapability(storage[lastCall'.call.Arguments[1]], lastCall'.Function))
       => (/\ lastCall'.rc = UserError
           /\ storage' = storage
           /\ lastCall'.transfers = <<>>
           /\ lastCall'.broadcasts = <<>>)]_vars

\* A caller who is not the owner asked to mint a mintable token and was refused.
C27_Witness ==
    /\ lastCall # NoCall
    /\ lastCall.Function = "mint"
    /\ lastCall.call.Arguments = <<TokenA, <<1>>, Bob>>
    /\ lastCall.call.CallValue = 0
    /\ lastCall.env = [gas |-> AmpleGas, transferOk |-> TRUE]
    /\ flagEnabled
    /\ TokenExists(storage, TokenA)
    /\ storage[TokenA].Mintable
    /\ storage[TokenA].OwnerAddress # lastCall.call.CallerAddr
    /\ lastCall.rc = UserError
    /\ lastCall.msg = "can be called by owner only"
    /\ storage[TokenA].MintedValue = 1

\* C28: pause and unPause make no token-owner check: called with one argument,
\* zero CallValue and sufficient gas on an existing token with CanPause true
\* that is in the opposite pause state, by a caller who is not the token's
\* owner, they return Ok and flip the stored IsPaused.
C28_PauseByAnyCaller ==
    [][(/\ lastCall' # NoCall
        /\ flagEnabled
        /\ lastCall'.Function \in {"pause", "unPause"}
        /\ Len(lastCall'.call.Arguments) = 1
        /\ lastCall'.call.CallValue = 0
        /\ lastCall'.env.gas >= gasCost.ESDTOperations
        /\ TokenExists(storage, lastCall'.call.Arguments[1])
        /\ storage[lastCall'.call.Arguments[1]].CanPause
        /\ ~RedundantPause(lastCall'.call)
        /\ storage[lastCall'.call.Arguments[1]].OwnerAddress # lastCall'.call.CallerAddr)
       => (/\ lastCall'.rc = Ok
           /\ storage' = [storage EXCEPT ![lastCall'.call.Arguments[1]].IsPaused = ~@])]_vars

\* The operations reserved for the owner of the contract, and the messages
\* with which they refuse another caller.
ContractOwnerOperations == {"configChange", "claim", "issueProtected"}
RefusedCallerMessages ==
    { "configChange can be called by whitelisted address only",
      "claim can be called by whitelisted address only",
      "issueProtected can be called by whitelisted address only" }

\* C29: configChange, claim and issueProtected are accepted only from the
\* OwnerAddress of the configuration record currently in storage: a call from
\* any other address returns UserError and changes nothing, and a call from
\* that address passes the owner check, also after a configChange has stored
\* a new owner.
C29_StoredOwnerDecides ==
    [][(/\ lastCall' # NoCall
        /\ flagEnabled
        /\ lastCall'.Function \in ContractOwnerOperations
        /\ configKeyPrefix \in DOMAIN storage
        /\ IsESDTConfig(storage[configKeyPrefix]))
       => (/\ lastCall'.call.CallerAddr # storage[configKeyPrefix].OwnerAddress
                => (lastCall'.rc = UserError /\ storage' = storage)
           /\ lastCall'.call.CallerAddr = storage[configKeyPrefix].OwnerAddress
                => lastCall'.msg \notin RefusedCallerMessages)]_vars

\* C30: once issue or issueProtected has returned Ok for an identifier, the
\* value stored under that identifier is in every later state a token record
\* whose TokenName is the identifier: no later operation (init, configChange,
\* an issue of another identifier, the directory append) deletes it or puts a
\* configuration record or directory data in its place, identifiers equal to
\* the configuration key "esdtConfig" included.
C30_IssuedRecordStays ==
    \A name \in issuedOk :
        /\ name \in DOMAIN storage
        /\ IsESDTData(storage[name])
        /\ storage[name].TokenName = name

\* The identifiers that have a token record in storage st.
TokenIdentifiers(st) == { k \in DOMAIN st : IsESDTData(st[k]) }

\* The identifiers of a set, each once, in every order.
Orders(S) ==
    { order \in [1..Cardinality(S) -> S] :
        \A i, j \in 1..Cardinality(S) : order[i] = order[j] => i = j }

\* The bytes of a list of identifiers separated by "@".
RECURSIVE JoinAt(_)
JoinAt(names) ==
    IF Len(names) = 0 THEN <<>>
    ELSE IF Len(names) = 1 THEN names[1]
    ELSE names[1] \o BytesAt \o JoinAt(Rest(names, 2))

\* C31: in every state the directory stored under allIssuedTokens is the
\* "@"-separated list of exactly the identifiers that have a token record in
\* storage, each once (no directory while there is no record): every
\* persisted record is listed and every listed identifier has a record, also
\* when the Transfer inside issueToken has failed.
C31_DirectoryListsRecords ==
    IF TokenIdentifiers(storage) = {}
    THEN BytesLen(GetStorage([storage |-> storage], allIssuedTokens)) = 0
    ELSE \E order \in Orders(TokenIdentifiers(storage)) :
            GetStorage([storage |-> storage], allIssuedTokens)
                = [kind |-> "bytes", data |-> JoinAt(order)]

\* The names upgradeProperties' switch knows, and a list of flag pairs of
\* which at least one has an unknown name or a value that is neither "true"
\* nor "false".
CapabilityNames == {burnable, mintable, canPause, canFreeze, canWipe, upgradable, canChangeOwner}
HasInvalidPair(flags) ==
    /\ Len(flags) > 0
    /\ Len(flags) % 2 = 0
    /\ \E i \in 1..Len(flags) :
          /\ i % 2 = 1
          /\ flags[i] \notin CapabilityNames \/ flags[i + 1] \notin {BytesTrue, BytesFalse}

\* The flag pairs of a call of issue, issueProtected or esdtControlChanges.
FlagsOf(call) ==
    IF call.Function = "esdtControlChanges" THEN Rest(call.Arguments, 2)
    ELSE Rest(IssueArguments(call), 3)

\* The call passes every check made before upgradeProperties: those of issue
\* and issueProtected and the first three of issueToken, or those of
\* esdtControlChanges.
ReachesUpgradeProperties(call, env) ==
    IF call.Function = "esdtControlChanges"
    THEN /\ flagEnabled
         /\ call.CallValue = 0
         /\ env.gas >= gasCost.ESDTOperations
         /\ TokenExists(storage, call.Arguments[1])
         /\ storage[call.Arguments[1]].OwnerAddress = call.CallerAddr
         /\ storage[call.Arguments[1]].Upgradable
    ELSE /\ ReachesIssueToken(call, env)
         /\ BytesLen(GetStorage([storage |-> storage], IssueArguments(call)[1])) = 0
         /\ ~HasByteOutsideAlnum(IssueArguments(call)[1])

\* C32: a call of issue, issueProtected or esdtControlChanges whose flag
\* pairs include one with an unknown name or a value that is neither "true"
\* nor "false" never returns Ok and leaves the storage as it was, whether or
\* not valid pairs come before it; when it passes the checks made before the
\* flags are read, it returns UserError with the invalid-argument error.
C32_InvalidFlagPersistsNothing ==
    [][(/\ lastCall' # NoCall
        /\ \/ IsIssueCall(lastCall'.call)
           \/ lastCall'.Function = "esdtControlChanges" /\ Len(lastCall'.call.Arguments) >= 2
        /\ HasInvalidPair(FlagsOf(lastCall'.call)))
       => (/\ lastCall'.rc # Ok
           /\ storage' = storage
           /\ ReachesUpgradeProperties(lastCall'.call, lastCall'.env)
                => (/\ lastCall'.rc = UserError
                    /\ lastCall'.msg = "ErrInvalidArgument"))]_vars

\* The owner of an upgradable token has asked for a valid pair followed by a
\* malformed boolean: refused, and the flag of the valid pair is not stored.
C32_Witness ==
    /\ lastCall # NoCall
    /\ lastCall.Function = "esdtControlChanges"
    /\ lastCall.call.Arguments = <<TokenA, burnable, BytesTrue, mintable, BytesMaybe>>
    /\ TokenExists(storage, TokenA)
    /\ storage[TokenA].OwnerAddress = lastCall.call.CallerAddr
    /\ storage[TokenA].Upgradable
    /\ ~storage[TokenA].Burnable
    /\ lastCall.rc = UserError
    /\ lastCall.msg = "ErrInvalidArgument"

\* The two queries, the bytes stored under the directory key, and the twelve
\* values getTokenProperties hands to Finish for a stored record.
QueryFunctions == {"getAllESDTTokens", "getTokenProperties"}
DirectoryBytes(st) == RawBytes(GetStorage([storage |-> st], allIssuedTokens))
PropertiesOf(token) ==
    << token.TokenName, token.OwnerAddress,
       DecimalBytes(token.MintedValue), DecimalBytes(token.BurntValue),
       "IsPaused-" \o (IF token.IsPaused THEN "true" ELSE "false"),
       "CanUpgrade-" \o (IF token.Upgradable THEN "true" ELSE "false"),
       "CanMint-" \o (IF token.Mintable THEN "true" ELSE "false"),
       "CanBurn-" \o (IF token.Burnable THEN "true" ELSE "false"),
       "CanChangeOwner-" \o (IF token.CanChangeOwner THEN "true" ELSE "false"),
       "CanPause-" \o (IF token.CanPause THEN "true" ELSE "false"),
       "CanFreeze-" \o (IF token.CanFreeze THEN "true" ELSE "false"),
       "CanWipe-" \o (IF token.CanWipe THEN "true" ELSE "false") >>

\* C33: getAllESDTTokens and getTokenProperties leave the storage as it was
\* and make no transfer and no broadcast, whatever they return; when they
\* return Ok the CallValue was zero, the gas covered the ESDTOperations cost
\* (and, for the directory, the copy cost of its bytes), and the output is
\* exactly what Finish was given: the directory bytes, or the twelve values
\* of the stored record.  The gas is charged before storage is read: a call
\* with the right arguments and too little gas returns OutOfGas with no
\* output, whether or not the token exists.
C33_QueriesReadOnly ==
    [][(/\ lastCall' # NoCall
        /\ lastCall'.Function \in QueryFunctions)
       => (/\ storage' = storage
           /\ lastCall'.transfers = <<>>
           /\ lastCall'.broadcasts = <<>>
           /\ lastCall'.rc # Ok => lastCall'.out = <<>>
           /\ lastCall'.rc = Ok =>
                /\ flagEnabled
                /\ lastCall'.call.CallValue = 0
                /\ lastCall'.env.gas >= gasCost.ESDTOperations
                /\ lastCall'.Function = "getAllESDTTokens" =>
                     /\ lastCall'.call.Arguments = <<>>
                     /\ lastCall'.env.gas >= gasCost.ESDTOperations
                            + gasCost.DataCopyPerByte
                                * BytesLen(GetStorage([storage |-> storage], allIssuedTokens))
                     /\ lastCall'.out = <<DirectoryBytes(storage)>>
                /\ lastCall'.Function = "getTokenProperties" =>
                     /\ Len(lastCall'.call.Arguments) = 1
                     /\ TokenExists(storage, lastCall'.call.Arguments[1])
                     /\ lastCall'.out = PropertiesOf(storage[lastCall'.call.Arguments[1]])
           /\ (/\ flagEnabled
               /\ lastCall'.call.CallValue = 0
               /\ Len(lastCall'.call.Arguments) =
                     (IF lastCall'.Function = "getAllESDTTokens" THEN 0 ELSE 1)
               /\ lastCall'.env.gas < gasCost.ESDTOperations)
              => lastCall'.rc = OutOfGas)]_vars

\* A caller who does not own the token has read its twelve properties, the
\* supply in decimal digits among them.
C33_Witness ==
    /\ lastCall # NoCall
    /\ lastCall.Function = "getTokenProperties"
    /\ lastCall.rc = Ok
    /\ TokenExists(storage, TokenA)
    /\ lastCall.call.CallerAddr # storage[TokenA].OwnerAddress
    /\ storage[TokenA].Burnable
    /\ Len(lastCall.out) = 12
    /\ lastCall.out[1] = TokenA
    /\ lastCall.out[3] = <<49>>
    /\ lastCall.out[8] = "CanBurn-true"

\* The seven capability flags of a stored record.
CapabilityFlags(token) ==
    << token.Burnable, token.Mintable, token.CanPause, token.CanFreeze,
       token.CanWipe, token.CanChangeOwner, token.Upgradable >>

\* The two constant keys the contract itself writes.
ReservedKeys == {configKeyPrefix, allIssuedTokens}

\* C35: a token record stored with Upgradable false keeps its seven
\* capability flags through every later step, whoever calls and whatever is
\* called: no step stores a token record with other flags under its
\* identifier, and the record stays in storage unless its identifier is one
\* of the two keys the contract writes its own records under.
C35_FrozenFlagsStay ==
    [][\A name \in DOMAIN storage :
          (TokenExists(storage, name) /\ ~storage[name].Upgradable)
          => (/\ name \notin ReservedKeys => TokenExists(storage', name)
              /\ TokenExists(storage', name)
                   => CapabilityFlags(storage'[name]) = CapabilityFlags(storage[name]))]_vars

\* The owner of a token issued with canUpgrade = false has asked for a flag
\* change and has been refused; the flag is as it was.
C35_Witness ==
    /\ lastCall # NoCall
    /\ lastCall.Function = "esdtControlChanges"
    /\ lastCall.call.Arguments = <<TokenB, burnable, BytesTrue>>
    /\ TokenExists(storage, TokenB)
    /\ storage[TokenB].OwnerAddress = lastCall.call.CallerAddr
    /\ ~storage[TokenB].Upgradable
    /\ ~storage[TokenB].Burnable
    /\ lastCall.call.CallValue = 0
    /\ lastCall.rc = UserError
    /\ lastCall.msg = "token is not upgradable"

----------------------------------------------------------------------------
(* Claims about concurrent calls on the ESDT contract (SpecConc).          *)

ConcAllIdle == \A p \in ConcProcs : epc[p] = "idle"

\* C12: concurrent Execute calls on one contract have the result of some
\* sequential order: the issue calls for one identifier never return Ok more
\* than once, and once every call has returned the stored MintedValue is the
\* initial supply plus one unit per mint call that returned Ok.
C12_CallsSerialized ==
    /\ concLog.okIssues <= 1
    /\ (ConcAllIdle /\ TokenExists(storage, TokenA)) =>
          storage[TokenA].MintedValue = 1 + concLog.okMints

\* C13: SetNewGasCost holds the lock only while no Execute call is in flight,
\* e.gasCost changes only then, no Execute call is in flight while the writer
\* holds the lock, and all gas amounts charged within one Execute call were
\* read from one gasCost value.
C13_GasCostSnapshot ==
    /\ [](/\ mutExecution.writer => mutExecution.readers = {}
          /\ mutExecution.readers = {t \in Executors : epc[t] # "idle"}
          /\ mutExecution.writer <=> epc[GasSetter] = "gs_write"
          /\ \A t \in Executors :
                \A i, j \in 1..Len(eloc[t].costs) : eloc[t].costs[i] = eloc[t].costs[j])
    /\ [][gasCost' # gasCost => \A t \in Executors : epc[t] = "idle" /\ epc'[t] = "idle"]_vars

\* SetNewGasCost has been called with a different cost and waits for the lock
\* while a getAllESDTTokens call is between its two gas charges.
C13_Witness ==
    /\ epc[GasSetter] = "gs_lock"
    /\ eloc[GasSetter].newCost # gasCost
    /\ \E t \in Executors :
          /\ epc[t] = "g_copy"
          /\ Len(eloc[t].costs) = 1
          /\ allIssuedTokens \in DOMAIN storage

=============================================================================
